---- MODULE Spec2Model ----
(***************************************************************************)
(* Character-information collection pipeline (matsufriends/LT250617).      *)
(*                                                                         *)
(* The module models, from the Python sources:                             *)
(*   - core/interfaces.py: CollectionResult, to_dict and the BaseCollector *)
(*     result helpers;                                                     *)
(*   - core/collector_factory.py: determine_best_search_engine;            *)
(*   - collectors/*.py: collect_info of each collector and the per-query   *)
(*     retry loops of the web-search collectors;                           *)
(*   - core/character_info_service.py: collect_character_info, the         *)
(*     concurrent orchestration of the three collection branches.          *)
(*   - utils/console_display.py, utils/output_suppressor.py: the realtime  *)
(*     display the orchestration reports to and its print suppression;     *)
(*   - utils/http_client.py, utils/api_client.py, utils/text_processor.py, *)
(*     utils/execution_logger.py: HTTP retries, speech-pattern extraction  *)
(*     and the shared execution log;                                       *)
(*   - generators/prompt_generator.py: prompt assembly and its fallbacks;  *)
(*   - collectors/youtube_collector.py, collectors/wikipedia_collector.py: *)
(*     the subtitle branch and the choice among Wikipedia candidates;      *)
(*   - main.py: argument checks and exit status.                           *)
(*                                                                         *)
(* Text values are ASCII tokens standing for the program's (Japanese)      *)
(* message strings; the token of each message is noted where it is used.   *)
(* Python's None is the token "None".                                      *)
(***************************************************************************)
EXTENDS Integers, Sequences, FiniteSets, TLC

VARIABLES
    \* ---- orchestration: CharacterInfoService.collect_character_info ----
    use_youtube,      \* argument use_youtube
    dur,              \* per branch: seconds after launch at which its function ends
    pc,               \* position of the main thread inside collect_character_info
    clock,            \* seconds since collect_character_info was entered
    alarm,            \* state of the SIGALRM timer set by signal.alarm(180)
    character_info,   \* the aggregate dictionary being assembled
    waitStart,        \* per branch: clock at which future.result(timeout) was entered
    verdict,          \* per branch: how the main thread's wait on its future ended
    use_realtime_display, \* argument use_realtime_display
    console_status,   \* per branch: ConsoleDisplay.status[b]["status"]
    display_loop,     \* "none" (no ConsoleDisplay), "running" (is_running) or "stopped"
    sys_stdout,       \* the stream sys.stdout names: "original" or "captured"
    plain_info,       \* the aggregate of the same run with use_realtime_display off
    \* ---- one collection: a collector called directly, or the web-search branch ----
    called,           \* "none" before; "direct" (collect_info) or "branch" (_collect_web_search_info)
    flags,            \* the four use_* flags given to the branch
    engine,           \* SearchEngineType chosen by determine_best_search_engine
    collector,        \* class of the collector whose collect_info ran ("none": not run)
    backend,          \* what the backends answered during the call
    result,           \* the CollectionResult collect_info returned
    webInfo,          \* the dictionary _collect_web_search_info returned
    llmQueries,       \* number of _search_with_chatgpt calls the call made
    \* ---- one web-search collector working through its queries ----
    sEngine,          \* which collector runs ("bing", "google", "duckduckgo")
    sQuery,           \* index of the query (search pattern) being processed
    sRetry,           \* loop variable `retry` of the current query
    sAttempts,        \* per query: number of search requests sent for it
    sFirst,           \* per query: the backend's answer to its first search request
    sSleeps,          \* per query: the rate-limit waits (seconds) slept before retries
    sState,           \* per query: "pending", "done" (results taken) or "skipped"
    sResults,         \* the collector's all_results list so far
    \* ---- one safe_http_get call ----
    hState,           \* "idle", "running" (inside BaseHTTPClient.get) or "done"
    hMaxRetries,      \* argument max_retries
    hOutcomes,        \* outcome of each session.get attempt made so far
    hSleeps,          \* the backoff waits (seconds) slept so far
    hResult,          \* what safe_http_get returned: "response", "null"; "none" before
    hUrl,             \* [url, requested]: the URL given, the URL client.get received
    \* ---- one PromptGenerator.generate_voice_prompt call ----
    gState,           \* "idle", "main", "introduction" (stages done so far) or "returned"
    gInfo,            \* argument character_info (the fields the generator reads)
    gCalls,           \* per stage: TRUE when its LLM call succeeded, in call order
    gPrompt,          \* generated_prompt / fallback_prompt
    gIntroduction,    \* character_introduction
    gOutput,          \* the record generate_voice_prompt returned
    \* ---- one speech-pattern extraction call ----
    xOp,              \* the extraction function called; "none" before
    xInput,           \* its input (what the text and the LLM answer contain)
    xOutput,          \* [raised, value]: whether it raised, the list it returned
    \* ---- the ExecutionLogger shared by the branch threads ----
    lThreads,         \* the branch threads of the run
    lpc,              \* per thread: the logger call it is at
    lSave,            \* per thread: where it is inside _save_log
    execution_log,    \* the logger's in-memory log (steps, performance)
    lFiles,           \* content of the two log files
    lWriters,         \* the threads that have written to execution_log
    \* ---- main.py: one run of main() ----
    mpc,              \* where main() is
    args,             \* the parsed command line (api_key: option or environment)
    exit_status,      \* the status of sys.exit, "none" while running
    mLogFile,         \* whether a log file has been created
    mInvoked,         \* the collector classes invoked so far
    mLlm,             \* whether an LLM call has been made
    mRaised,          \* whether an exception reached main's except clause
    \* ---- the subtitle branch: _collect_youtube_info / YouTubeCollector ----
    yState,           \* "idle", "loop" (inside the URL loop), "finish", "returned"
    yIn,              \* the call: flags, URL list, max_videos, api_key, character_info
    yLookup,          \* the backend _get_youtube_urls asked for URLs, "none"
    yIdx,             \* index of the next URL of youtube_urls[:max_videos]
    yAttempted,       \* indexes of the URLs whose transcript was requested
    yTranscripts,     \* indexes of the URLs that gave a transcript
    yResult,          \* the dictionary returned
    \* ---- prompt assembly: PromptGenerator._organize_information and its users ----
    pInfo,            \* the aggregate record (character_info) the generator is given
    pTexts,           \* the texts returned by the _generate_fallback_prompt calls so far
    pUser,            \* the user prompt built by _build_user_prompt, <<>> before
    pView,            \* the flat view built by the latest _organize_information call
    \* ---- WikipediaCollector._select_best_character_option ----
    wName,            \* original_name, a title (the set of its words)
    wOptions,         \* the candidate list (search results or disambiguation options)
    wSite,            \* the call site: "none", "search" (61) or "disambiguation" (89)
    wSelected         \* the title returned

orchVars ==
    <<use_youtube, dur, pc, clock, alarm, character_info, waitStart, verdict,
      use_realtime_display, console_status, display_loop, sys_stdout, plain_info>>
collVars == <<called, flags, engine, collector, backend, result, webInfo, llmQueries>>
srchVars == <<sEngine, sQuery, sRetry, sAttempts, sFirst, sSleeps, sState, sResults>>
httpVars == <<hState, hMaxRetries, hOutcomes, hSleeps, hResult, hUrl>>
genVars == <<gState, gInfo, gCalls, gPrompt, gIntroduction, gOutput>>
extrVars == <<xOp, xInput, xOutput>>
logVars == <<lThreads, lpc, lSave, execution_log, lFiles, lWriters>>
mainVars == <<mpc, args, exit_status, mLogFile, mInvoked, mLlm, mRaised>>
youVars == <<yState, yIn, yLookup, yIdx, yAttempted, yTranscripts, yResult>>
promptVars == <<pInfo, pTexts, pUser, pView>>
wikiVars == <<wName, wOptions, wSite, wSelected>>
extVars == <<httpVars, genVars, extrVars, logVars, mainVars, youVars, promptVars, wikiVars>>
vars == <<orchVars, collVars, srchVars, extVars>>

None == "None"

Max(a, b) == IF a >= b THEN a ELSE b

(***************************************************************************)
(* Python dict assignment d[k] = v.                                        *)
(***************************************************************************)
DictSet(d, k, v) == [x \in (DOMAIN d) \cup {k} |-> IF x = k THEN v ELSE d[x]]

(***************************************************************************)
(* Bounds of the model.                                                    *)
(***************************************************************************)
MaxPatterns == 2      \* search patterns (queries) per collect_info call
MaxUrls == 2          \* result URLs a search request delivers
Step == 30            \* granularity (seconds) of the branch durations
MaxSteps == 7         \* the longest branch runs Step * MaxSteps seconds

Patterns == 1..MaxPatterns
Urls == 1..MaxUrls

(***************************************************************************)
(* core/interfaces.py                                                      *)
(***************************************************************************)
CollectorClasses ==
    {"WikipediaCollector", "GoogleCollector", "BingCollector",
     "DuckDuckGoCollector", "ChatGPTCollector"}

\* BaseCollector.__init__: self.__class__.__name__.replace("Collector", "").lower()
source_name(cls) ==
    CASE cls = "WikipediaCollector" -> "wikipedia"
      [] cls = "GoogleCollector" -> "google"
      [] cls = "BingCollector" -> "bing"
      [] cls = "DuckDuckGoCollector" -> "duckduckgo"
      [] cls = "ChatGPTCollector" -> "chatgpt"

\* The dataclass CollectionResult; query, source and duration default to None.
CollectionResult(found, error, results, total_results, query, source, duration) ==
    [found |-> found, error |-> error, results |-> results,
     total_results |-> total_results, query |-> query, source |-> source,
     duration |-> duration]

\* CollectionResult.to_dict
to_dict(r) ==
    [found |-> r.found, error |-> r.error, results |-> r.results,
     total_results |-> r.total_results, query |-> r.query, source |-> r.source,
     duration |-> r.duration]

\* BaseCollector._create_error_result
create_error_result(cls, error_message, query) ==
    CollectionResult(FALSE, error_message, <<>>, 0, query, source_name(cls), None)

\* A success helper that reports found regardless of the number of results.
create_success_result_always_found(cls, results, query, duration) ==
    CollectionResult(TRUE, None, results, Len(results), query, source_name(cls), duration)

\* BaseCollector._create_success_result (results already converted by to_dict)
create_success_result(cls, results, query, duration) ==
    CollectionResult(Len(results) > 0, None, results, Len(results), query,
                     source_name(cls), duration)

(***************************************************************************)
(* core/collector_factory.py                                               *)
(***************************************************************************)
\* A selection that tests use_duckduckgo before use_bing.
determine_engine_duckduckgo_first(use_chatgpt, use_bing, use_duckduckgo, use_google) ==
    IF use_chatgpt THEN "chatgpt"
    ELSE IF use_duckduckgo THEN "duckduckgo"
    ELSE IF use_bing THEN "bing"
    ELSE IF use_google THEN "google"
    ELSE "chatgpt"

\* CollectorFactory.determine_best_search_engine
determine_best_search_engine(use_chatgpt, use_bing, use_duckduckgo, use_google) ==
    IF use_chatgpt THEN "chatgpt"
    ELSE IF use_bing THEN "bing"
    ELSE IF use_duckduckgo THEN "duckduckgo"
    ELSE IF use_google THEN "google"
    ELSE "chatgpt"

(***************************************************************************)
(* collectors/*.py: what one collect_info call returns.                    *)
(*                                                                         *)
(* The environment of a call (what the backend answers) is a record:       *)
(*   search[p]  answer to pattern p's search request:                      *)
(*              "ok", "http_429" or "error";                               *)
(*   page[p][u] TRUE when fetching result URL u of pattern p succeeds;     *)
(*   ddg[p][m]  outcome of DuckDuckGo method m (1 HTML, 2 Lite, 3 simple)  *)
(*              for pattern p: "ok", "empty" (also any non-200 status) or  *)
(*              "raise";                                                   *)
(*   api_key    TRUE when an OpenAI API key was passed;                    *)
(*   use_api    TRUE when GoogleCollector has both google_api_key and      *)
(*              google_cx (Custom Search API path);                        *)
(*   fault      TRUE when an exception reaches collect_info's outermost    *)
(*              except clause (raised outside every inner try);            *)
(*   wiki       <<search, page, inner_page>> outcomes of the wikipedia     *)
(*              library calls.                                             *)
(* A retrieved item is [query, url, content]; content names what the item  *)
(* holds ("page", "snippet", "description", "answer") or, for the entries  *)
(* that are bare URL strings, "raw_url_string".                            *)
(***************************************************************************)
SearchResponses == {"ok", "http_429", "error"}
MethodOutcomes == {"ok", "empty", "raise"}
DdgMethods == <<"html", "lite", "simple">>

Item(p, u, content) == [query |-> p, url |-> u, content |-> content]

UrlSeq == [i \in 1..MaxUrls |-> i]

\* all_results.extend(pattern_results) for the patterns 1..n, in order
RECURSIVE extend_all(_, _)
extend_all(lists, n) ==
    IF n = 0 THEN <<>> ELSE extend_all(lists, n - 1) \o lists[n]

\* for url in urls: content_info = _extract_page_content(url); kept only when
\* the fetch succeeded (bing_collector.py 125-141, google_collector.py 405-419)
RECURSIVE pages_kept(_, _, _)
pages_kept(p, urls, page) ==
    IF urls = <<>> THEN <<>>
    ELSE IF page[p][Head(urls)]
         THEN <<Item(p, Head(urls), "page")>> \o pages_kept(p, Tail(urls), page)
         ELSE pages_kept(p, Tail(urls), page)

\* BingCollector._perform_bing_search: the whole request and parse is inside
\* try/except Exception (179-240), so an HTTPError raised by raise_for_status
\* (status 429 included) ends as the empty list.
perform_bing_search(resp) == IF resp = "ok" THEN UrlSeq ELSE <<>>

\* BingCollector._search_single_pattern, first pass of the retry loop; no
\* exception reaches its handler from the search request (see above).
bing_search_single_pattern(p, env) ==
    pages_kept(p, perform_bing_search(env.search[p]), env.page)

\* GoogleCollector._search_with_api: status 200 gives one item per result,
\* the page content or, when the page fetch fails, the API snippet; any other
\* status and any exception give the empty list.
RECURSIVE api_items(_, _, _)
api_items(p, urls, page) ==
    IF urls = <<>> THEN <<>>
    ELSE <<Item(p, Head(urls), IF page[p][Head(urls)] THEN "page" ELSE "snippet")>>
         \o api_items(p, Tail(urls), page)

google_search_with_api(p, env) ==
    IF env.search[p] = "ok" THEN api_items(p, UrlSeq, env.page) ELSE <<>>

\* search_with_timeout inside _search_single_pattern_fallback: the googlesearch
\* call is inside try/except Exception returning [] (350-363).
search_with_timeout(resp) == IF resp = "ok" THEN UrlSeq ELSE <<>>

\* GoogleCollector._search_single_pattern_fallback, first pass of the retry
\* loop: `search_results = future.result(...)` rebinds the result list to the
\* list of URL strings (369), the page items are appended to that same list.
google_search_single_pattern_fallback(p, env) ==
    LET urls == search_with_timeout(env.search[p])
    IN  [i \in 1..Len(urls) |-> Item(p, urls[i], "raw_url_string")]
        \o pages_kept(p, urls, env.page)

\* DuckDuckGoCollector._search_pattern: the methods in order, the first
\* non-empty list wins; a raising method is skipped (141-152).
RECURSIVE ddg_methods(_, _, _)
ddg_methods(p, m, env) ==
    IF m > Len(DdgMethods) THEN <<>>
    ELSE IF env.ddg[p][m] = "ok"
         THEN [i \in 1..MaxUrls |-> Item(p, i, "description")]
         ELSE ddg_methods(p, m + 1, env)

ddg_search_pattern(p, env) == ddg_methods(p, 1, env)

\* ChatGPTCollector._search_with_chatgpt: a dict, or None when the API call or
\* anything after it raises (204-212); collect_info appends only a truthy result.
chatgpt_search(p, env) ==
    IF env.search[p] = "ok" THEN <<Item(p, 1, "answer")>> ELSE <<>>

\* The conversion loop of every web collector's collect_info:
\* SearchResult(url=result_dict.get("url", ""), ...) inside try/except Exception
\* with `continue`; an entry that is a str has no .get and is skipped.
RECURSIVE convert_results(_, _)
convert_results(all_results, source) ==
    IF all_results = <<>> THEN <<>>
    ELSE LET d == Head(all_results)
             rest == convert_results(Tail(all_results), source)
         IN  IF d.content = "raw_url_string" THEN rest
             ELSE <<[query |-> d.query, url |-> d.url, content |-> d.content,
                     source |-> source]>> \o rest

\* BingCollector.collect_info
BingCollector_collect_info(env) ==
    IF env.fault
    THEN create_error_result("BingCollector", "bing_search_error", "multi_pattern_bing")
    ELSE create_success_result("BingCollector",
            convert_results(
                extend_all([p \in Patterns |-> bing_search_single_pattern(p, env)],
                           MaxPatterns), "bing"),
            "multi_pattern_bing", None)

\* DuckDuckGoCollector.collect_info
DuckDuckGoCollector_collect_info(env) ==
    IF env.fault
    THEN create_error_result("DuckDuckGoCollector", "duckduckgo_search_error",
                             "multi_pattern_duckduckgo")
    ELSE create_success_result("DuckDuckGoCollector",
            convert_results(
                extend_all([p \in Patterns |-> ddg_search_pattern(p, env)],
                           MaxPatterns), "duckduckgo"),
            "multi_pattern_duckduckgo", None)

\* GoogleCollector.collect_info
GoogleCollector_collect_info(env) ==
    IF env.fault
    THEN create_error_result("GoogleCollector", "google_search_error", "multi_pattern")
    ELSE create_success_result("GoogleCollector",
            convert_results(
                extend_all([p \in Patterns |->
                              IF env.use_api THEN google_search_with_api(p, env)
                              ELSE google_search_single_pattern_fallback(p, env)],
                           MaxPatterns), "google"),
            IF env.use_api THEN "multi_pattern_api" ELSE "multi_pattern_fallback",
            "measured")

\* A collect_info that goes to the query loop without looking at api_key.
ChatGPTCollector_collect_info_unguarded(env) ==
    IF env.fault
    THEN create_error_result("ChatGPTCollector", "chatgpt_search_error",
                             "chatgpt_knowledge_base")
    ELSE create_success_result("ChatGPTCollector",
            convert_results(
                extend_all([p \in Patterns |-> chatgpt_search(p, env)], MaxPatterns),
                "chatgpt"),
            "chatgpt_knowledge_base", None)

\* ChatGPTCollector.collect_info
ChatGPTCollector_collect_info(env) ==
    IF ~env.api_key
    THEN create_error_result("ChatGPTCollector", "chatgpt_needs_openai_API_Key", None)
    ELSE IF env.fault
    THEN create_error_result("ChatGPTCollector", "chatgpt_search_error",
                             "chatgpt_knowledge_base")
    ELSE create_success_result("ChatGPTCollector",
            convert_results(
                extend_all([p \in Patterns |-> chatgpt_search(p, env)], MaxPatterns),
                "chatgpt"),
            "chatgpt_knowledge_base", None)

\* WikipediaCollector.collect_info; env.wiki = <<search, page, inner_page>>.
\* The two found=True results are built directly with CollectionResult(found,
\* error, results, total_results) (75-80, 100-105).
WikipediaCollector_collect_info(name, env) ==
    LET search == env.wiki[1]
        page == env.wiki[2]
        inner == env.wiki[3]
        result_data == Item(1, 1, "wikipedia_page")
    IN  IF search = "raise"
        THEN create_error_result("WikipediaCollector", "wikipedia_fetch_error", name)
        ELSE IF search = "empty"
        THEN create_error_result("WikipediaCollector", "wikipedia_page_not_found", name)
        ELSE IF page = "ok"
        THEN CollectionResult(TRUE, None, <<result_data>>, 1, None, None, None)
        ELSE IF page = "disambiguation"
        THEN IF inner = "ok"
             THEN CollectionResult(TRUE, "disambiguation_selected",
                                   <<Item(1, 1, "wikipedia_page_other_options")>>, 1,
                                   None, None, None)
             ELSE create_error_result("WikipediaCollector", "disambiguation_error", name)
        ELSE IF page = "page_error"
        THEN create_error_result("WikipediaCollector", "wikipedia_page_missing", name)
        ELSE create_error_result("WikipediaCollector", "wikipedia_fetch_error", name)

collect_info(cls, name, env) ==
    CASE cls = "WikipediaCollector" -> WikipediaCollector_collect_info(name, env)
      [] cls = "GoogleCollector" -> GoogleCollector_collect_info(env)
      [] cls = "BingCollector" -> BingCollector_collect_info(env)
      [] cls = "DuckDuckGoCollector" -> DuckDuckGoCollector_collect_info(env)
      [] cls = "ChatGPTCollector" -> ChatGPTCollector_collect_info(env)

(***************************************************************************)
(* The environments one collect_info call is checked under.                *)
(***************************************************************************)
DefaultEnv ==
    [search |-> [p \in Patterns |-> "ok"],
     page |-> [p \in Patterns |-> [u \in Urls |-> TRUE]],
     ddg |-> [p \in Patterns |-> [m \in 1..Len(DdgMethods) |-> "ok"]],
     api_key |-> TRUE, use_api |-> FALSE, fault |-> FALSE,
     wiki |-> <<"hits", "ok", "ok">>]

SearchEnvs == [Patterns -> SearchResponses]
PageEnvs == [Patterns -> [Urls -> BOOLEAN]]
DdgEnvs == [Patterns -> [1..Len(DdgMethods) -> MethodOutcomes]]
WikiEnvs == {"raise", "empty", "hits"} \X {"ok", "disambiguation", "page_error", "raise"}
            \X {"ok", "raise"}

Envs(cls) ==
    CASE cls = "WikipediaCollector" ->
            {[DefaultEnv EXCEPT !.wiki = w] : w \in WikiEnvs}
      [] cls = "BingCollector" ->
            {[DefaultEnv EXCEPT !.search = s, !.page = g, !.fault = f] :
                s \in SearchEnvs, g \in PageEnvs, f \in BOOLEAN}
      [] cls = "GoogleCollector" ->
            {[DefaultEnv EXCEPT !.search = s, !.page = g, !.fault = f, !.use_api = a] :
                s \in SearchEnvs, g \in PageEnvs, f \in BOOLEAN, a \in BOOLEAN}
      [] cls = "DuckDuckGoCollector" ->
            {[DefaultEnv EXCEPT !.ddg = d, !.fault = f] : d \in DdgEnvs, f \in BOOLEAN}
      [] cls = "ChatGPTCollector" ->
            {[DefaultEnv EXCEPT !.search = s, !.fault = f, !.api_key = k] :
                s \in SearchEnvs, f \in BOOLEAN, k \in BOOLEAN}

NoResult == CollectionResult(FALSE, None, <<>>, 0, None, None, None)

NoFlags == [use_chatgpt |-> FALSE, use_bing |-> FALSE, use_duckduckgo |-> FALSE,
            use_google |-> FALSE]

FlagSets == [use_chatgpt : BOOLEAN, use_bing : BOOLEAN, use_duckduckgo : BOOLEAN,
             use_google : BOOLEAN]

EngineClass(e) ==
    CASE e = "google" -> "GoogleCollector"
      [] e = "bing" -> "BingCollector"
      [] e = "duckduckgo" -> "DuckDuckGoCollector"
      [] e = "chatgpt" -> "ChatGPTCollector"

\* CollectorFactory.create_search_engine_collector: the class constructed, or
\* "ConfigurationError" (ChatGPT requested without an API key, 66-67).
create_search_engine_collector(engine_type, api_key) ==
    IF engine_type = "chatgpt" /\ ~api_key THEN "ConfigurationError"
    ELSE EngineClass(engine_type)

\* The dictionary returned by the except clause of _collect_web_search_info
\* (337-347); error is "Web検索エラー: " + str(e).
web_search_error(msg) ==
    [found |-> FALSE, error |-> msg, results |-> <<>>, total_results |-> 0]

\* The _search_with_chatgpt calls (one LLM query each) that collect_info of
\* class cls makes: one per search pattern, after the api_key test (46-47);
\* env.fault is an exception before the loop is entered.
chatgpt_queries(cls, env) ==
    IF cls = "ChatGPTCollector" /\ env.api_key /\ ~env.fault THEN MaxPatterns ELSE 0

\* The error texts of the model that hold the words "API Key":
\* "ChatGPT検索にはOpenAI API Keyが必要です" (chatgpt_collector.py 47) and
\* "Web検索エラー: ChatGPT検索にはAPI Keyが必要です" (collector_factory.py 67
\* behind the prefix of character_info_service.py 338).
ErrorsNamingApiKey ==
    {"chatgpt_needs_openai_API_Key", "web_search_error:chatgpt_search_needs_API_Key"}

CollInit ==
    /\ called = "none" /\ flags = NoFlags /\ engine = "none" /\ collector = "none"
    /\ backend = DefaultEnv /\ result = NoResult /\ webInfo = NoResult
    /\ llmQueries = 0

\* One collector is constructed and its collect_info("X") is called directly.
CollectDirect ==
    /\ called = "none"
    /\ \E cls \in CollectorClasses : \E e \in Envs(cls) :
          /\ called' = "direct"
          /\ collector' = cls
          /\ backend' = e
          /\ result' = collect_info(cls, "X", e)
          /\ llmQueries' = chatgpt_queries(cls, e)
    /\ UNCHANGED <<flags, engine, webInfo>>
    /\ UNCHANGED <<orchVars, srchVars, extVars>>

\* CharacterInfoService._collect_web_search_info(name, use_google,
\* use_duckduckgo, use_bing, use_chatgpt_search); self.api_key is e.api_key.
CollectWebSearchInfo ==
    /\ called = "none"
    /\ \E f \in FlagSets :
        LET engine_type == determine_best_search_engine(
                               f.use_chatgpt, f.use_bing, f.use_duckduckgo, f.use_google)
        IN  \E e \in Envs(EngineClass(engine_type)) :
              LET cls == create_search_engine_collector(engine_type, e.api_key)
              IN  /\ called' = "branch"
                  /\ flags' = f
                  /\ engine' = engine_type
                  /\ backend' = e
                  /\ IF cls = "ConfigurationError"
                     THEN /\ collector' = "none"
                          /\ result' = NoResult
                          /\ webInfo' = web_search_error("web_search_error:chatgpt_search_needs_API_Key")
                          /\ llmQueries' = 0
                     ELSE /\ collector' = cls
                          /\ result' = collect_info(cls, "X", e)
                          /\ webInfo' = to_dict(collect_info(cls, "X", e))
                          /\ llmQueries' = chatgpt_queries(cls, e)
    /\ UNCHANGED <<orchVars, srchVars, extVars>>

(***************************************************************************)
(* core/character_info_service.py: collect_character_info.                 *)
(*                                                                         *)
(* The three branch functions are submitted to a ThreadPoolExecutor with   *)
(* three workers, so each starts at once; dur[b] is the second at which    *)
(* branch b's function ends.  Only the blocking steps of the main thread   *)
(* (future.result(timeout), the executor's shutdown(wait=True)) take time. *)
(* The SIGALRM handler raises TimeoutError in the main thread at second    *)
(* AlarmSeconds if the main thread is then inside a blocking step.         *)
(***************************************************************************)
TimeoutWikipedia == 30
TimeoutWebSearch == 90
TimeoutYoutube == 120
AlarmSeconds == 180

Branches == {"wikipedia", "web_search", "youtube"}
Durations == {k * Step : k \in 0..MaxSteps}

SlotKey(b) ==
    CASE b = "wikipedia" -> "wikipedia_info"
      [] b = "web_search" -> "google_search_results"
      [] b = "youtube" -> "youtube_transcripts"

Timeout(b) ==
    CASE b = "wikipedia" -> TimeoutWikipedia
      [] b = "web_search" -> TimeoutWebSearch
      [] b = "youtube" -> TimeoutYoutube

\* The futures submitted: youtube_future is None when use_youtube is false.
Launched == IF use_youtube THEN Branches ELSE Branches \ {"youtube"}

\* A timeout clause that stores only the message.
on_timeout_message_only(b) == [error |-> "timeout"]

\* The dictionary stored by `except concurrent.futures.TimeoutError` of branch b.
\* "timeout" is the message "タイムアウト", "timeout_90s" is "タイムアウト（90秒）".
on_timeout(b) ==
    CASE b = "wikipedia" ->
            [found |-> FALSE, error |-> "timeout", results |-> <<>>, total_results |-> 0]
      [] b = "web_search" ->
            [found |-> FALSE, error |-> "timeout_90s", results |-> <<>>,
             total_results |-> 0]
      [] b = "youtube" ->
            [found |-> FALSE, error |-> "timeout", transcripts |-> <<>>,
             total_videos |-> 0, sample_phrases |-> <<>>]

\* The dictionary stored by `except Exception as e` of branch b; msg is str(e).
on_exception(b, msg) ==
    IF b = "youtube"
    THEN [found |-> FALSE, error |-> msg, transcripts |-> <<>>, total_videos |-> 0,
          sample_phrases |-> <<>>]
    ELSE [found |-> FALSE, error |-> msg, results |-> <<>>, total_results |-> 0]

\* The dictionary stored when youtube_future is None (212-219).
youtube_disabled ==
    [found |-> FALSE, error |-> "youtube_collection_disabled", transcripts |-> <<>>,
     total_videos |-> 0, sample_phrases |-> <<>>, skipped |-> TRUE]

\* _collect_wikipedia_info, except clause (263-276).
wikipedia_caught ==
    [found |-> FALSE, error |-> "wikipedia_collection_error", title |-> None,
     summary |-> None, content |-> None, url |-> None, categories |-> <<>>]

\* _collect_youtube_info, except clause (389-411).
youtube_caught ==
    [found |-> FALSE, error |-> "youtube_collection_error", transcripts |-> <<>>,
     total_videos |-> 0, sample_phrases |-> <<>>]

\* YouTubeCollector.collect_info: no URL given (48-55).
youtube_no_urls ==
    [found |-> FALSE, error |-> "no_youtube_url_given", transcripts |-> <<>>,
     total_videos |-> 0, sample_phrases |-> <<>>]

\* YouTubeCollector.collect_info: the record built after the URL loop (132-142),
\* here with one transcript found.
youtube_collected ==
    [found |-> TRUE, error |-> None, transcripts |-> <<"transcript">>,
     total_videos |-> 1, sample_phrases |-> <<"phrase">>,
     character_quotes |-> <<"quote">>, processed_urls |-> 1,
     successful_extractions |-> 1, speech_pattern_analysis |-> "analysis"]

\* ProgressReporter (utils/console_display.py): the status each report hands
\* to ConsoleDisplay.update_status.  "queued" is the initial status of
\* ConsoleDisplay.__init__, "running" the one of start_component.
start_component == "running"

complete_component(success, message) ==
    IF success THEN "done" ELSE IF message # "" THEN "error" ELSE "skipped"

\* An error report that shows the branch as done.
error_component_as_done(error_msg) == "done"

error_component(error_msg) == "error"

\* ConsoleDisplay.update_status(component, status)
update_status(shown, component, new_status) ==
    IF component \in DOMAIN shown THEN [shown EXCEPT ![component] = new_status]
    ELSE shown

\* ConsoleDisplay.start: is_running, enable_print_suppression() (which points
\* sys.stdout at the capture buffer) and the display thread
console_display_start == [display_loop |-> "running", sys_stdout |-> "captured"]

\* ConsoleDisplay.stop: is_running = False, join(timeout=1),
\* disable_print_suppression() (sys.stdout = the original stream)
console_display_stop == [display_loop |-> "stopped", sys_stdout |-> "original"]

Returned(v) == [kind |-> "returned", value |-> v]
Raised(msg) == [kind |-> "raised", value |-> [error |-> msg]]

\* What branch b's future holds once its function has ended: the dictionary
\* the function returned, or the exception that left its except clause.
FutureOutcomes(b) ==
    CASE b = "wikipedia" ->
            {Returned(to_dict(WikipediaCollector_collect_info("X", DefaultEnv))),
             Returned(to_dict(WikipediaCollector_collect_info("X",
                        [DefaultEnv EXCEPT !.wiki = <<"empty", "ok", "ok">>]))),
             Returned(wikipedia_caught),
             Raised("escaped_exception")}
      [] b = "web_search" ->
            {Returned(to_dict(BingCollector_collect_info(DefaultEnv))),
             Returned(web_search_error("web_search_error")),
             Raised("escaped_exception")}
      [] b = "youtube" ->
            {Returned(youtube_collected), Returned(youtube_no_urls),
             Returned(youtube_caught), Raised("escaped_exception")}

\* future.result(timeout=limit) entered at second start on a future whose
\* function ends at second d: the second at which the call ends.
wait_end(start, d, limit) ==
    IF d <= start + limit THEN Max(start, d) ELSE start + limit

\* The alarm goes off while the main thread is inside a blocking step that
\* lasts from second start to second end.
alarm_hits(armed, start, end) ==
    armed /\ start <= AlarmSeconds /\ AlarmSeconds < end

\* How future.result(timeout=limit) ends.
wait_verdict(start, d, limit, armed) ==
    IF alarm_hits(armed, start, wait_end(start, d, limit)) THEN "alarm"
    ELSE IF d <= start + limit THEN "in_time"
    ELSE "timeout"

OrchInit ==
    /\ use_youtube \in BOOLEAN
    /\ dur \in [Branches -> Durations]
    /\ (~use_youtube => dur["youtube"] = 0)
    /\ pc = "entry"
    /\ clock = 0
    /\ alarm = "unset"
    /\ character_info = [name |-> "X"]
    /\ waitStart = [b \in Branches |-> 0]
    /\ verdict = [b \in Branches |-> "none"]
    /\ use_realtime_display \in BOOLEAN
    /\ console_status = [b \in Branches |-> "queued"]
    /\ display_loop = "none"
    /\ sys_stdout = "original"
    /\ plain_info = [name |-> "X"]

\* character_info = {"name": name} and the display set-up (50-62): with
\* use_realtime_display a ConsoleDisplay is made and started.
StartDisplay ==
    /\ pc = "entry"
    /\ pc' = "setup"
    /\ IF use_realtime_display
       THEN /\ display_loop' = console_display_start.display_loop
            /\ sys_stdout' = console_display_start.sys_stdout
       ELSE UNCHANGED <<display_loop, sys_stdout>>
    /\ UNCHANGED <<use_youtube, dur, clock, alarm, character_info, waitStart, verdict,
                   use_realtime_display, console_status, plain_info>>
    /\ UNCHANGED <<collVars, srchVars, extVars>>

\* signal.signal / signal.alarm(180) inside try/except: on a platform without
\* SIGALRM the bare except leaves no alarm set (72-76).
SetAlarm ==
    /\ pc = "setup"
    /\ alarm' \in {"armed", "unsupported"}
    /\ pc' = "submit"
    /\ UNCHANGED <<use_youtube, dur, clock, character_info, waitStart, verdict,
                   use_realtime_display, console_status, display_loop, sys_stdout, plain_info>>
    /\ UNCHANGED <<collVars, srchVars, extVars>>

\* executor.submit of the two or three branch functions, each preceded by
\* progress_reporter.start_component when the display is on (80-111).
Submit ==
    /\ pc = "submit"
    /\ pc' = "wait_wikipedia"
    /\ console_status' =
          IF use_realtime_display
          THEN [b \in Branches |->
                  IF b \in Launched THEN update_status(console_status, b, start_component)[b]
                  ELSE console_status[b]]
          ELSE console_status
    /\ UNCHANGED <<use_youtube, dur, clock, alarm, character_info, waitStart, verdict,
                   use_realtime_display, display_loop, sys_stdout, plain_info>>
    /\ UNCHANGED <<collVars, srchVars, extVars>>

\* What the try statement of branch b can store in the aggregate and report
\* to the display when the wait on the future ends with verdict v: the
\* clause for concurrent.futures.TimeoutError, the clause for Exception, or
\* the result followed by complete_component.
try_outcomes(b, v) ==
    IF v = "alarm"
    THEN {[value |-> on_timeout(b), status |-> error_component("timeout")],
          [value |-> on_exception(b, "overall_timeout_3min"),
           status |-> error_component("overall_timeout_3min")]}
    ELSE IF v = "timeout"
    THEN {[value |-> on_timeout(b), status |-> error_component("timeout")]}
    ELSE {[value |-> IF o.kind = "raised" THEN on_exception(b, o.value.error) ELSE o.value,
           status |-> IF o.kind = "raised" THEN error_component(o.value.error)
                      ELSE complete_component(TRUE, "")] :
          o \in FutureOutcomes(b)}

\* try: character_info[key] = future.result(timeout=...) with its two except
\* clauses, for branch b.  A TimeoutError raised by the alarm handler inside
\* future.result is caught by the first clause where
\* concurrent.futures.TimeoutError is the builtin TimeoutError (Python 3.11 on)
\* and by the second clause otherwise.
Collect(b, next) ==
    LET v == wait_verdict(clock, dur[b], Timeout(b), alarm = "armed")
        end == wait_end(clock, dur[b], Timeout(b))
    IN  /\ waitStart' = [waitStart EXCEPT ![b] = clock]
        /\ verdict' = [verdict EXCEPT ![b] = v]
        /\ pc' = next
        /\ UNCHANGED <<use_youtube, dur, use_realtime_display, display_loop, sys_stdout>>
        /\ clock' = IF v = "alarm" THEN AlarmSeconds ELSE end
        /\ alarm' = IF v = "alarm" THEN "fired" ELSE alarm
        /\ \E r \in try_outcomes(b, v) :
              /\ character_info' = DictSet(character_info, SlotKey(b), r.value)
              /\ plain_info' = DictSet(plain_info, SlotKey(b), r.value)
              /\ console_status' =
                    IF use_realtime_display
                    THEN update_status(console_status, b, r.status)
                    ELSE console_status

CollectWikipedia ==
    /\ pc = "wait_wikipedia"
    /\ Collect("wikipedia", "wait_web_search")
    /\ UNCHANGED <<collVars, srchVars, extVars>>

CollectWebSearch ==
    /\ pc = "wait_web_search"
    /\ Collect("web_search", "wait_youtube")
    /\ UNCHANGED <<collVars, srchVars, extVars>>

CollectYoutube ==
    /\ pc = "wait_youtube"
    /\ use_youtube
    /\ Collect("youtube", "executor_exit")
    /\ UNCHANGED <<collVars, srchVars, extVars>>

\* else branch of `if youtube_future:` (211-219).
SkipYoutube ==
    /\ pc = "wait_youtube"
    /\ ~use_youtube
    /\ character_info' = DictSet(character_info, "youtube_transcripts", youtube_disabled)
    /\ plain_info' = DictSet(plain_info, "youtube_transcripts", youtube_disabled)
    /\ verdict' = [verdict EXCEPT !["youtube"] = "disabled"]
    /\ pc' = "executor_exit"
    /\ UNCHANGED <<use_youtube, dur, clock, alarm, waitStart,
                   use_realtime_display, console_status, display_loop, sys_stdout>>
    /\ UNCHANGED <<collVars, srchVars, extVars>>

\* The second at which every submitted branch function has ended.
all_done == CHOOSE t \in {dur[b] : b \in Launched} : \A b \in Launched : dur[b] <= t

\* End of the `with ThreadPoolExecutor(...)` block: __exit__ calls
\* shutdown(wait=True), which joins the worker threads.  A TimeoutError raised
\* there by the alarm handler is inside no try block and leaves
\* collect_character_info.
ExecutorExit ==
    /\ pc = "executor_exit"
    /\ IF alarm_hits(alarm = "armed", clock, Max(clock, all_done))
       THEN /\ clock' = AlarmSeconds
            /\ alarm' = "fired"
            /\ pc' = "raised"
       ELSE /\ clock' = Max(clock, all_done)
            /\ UNCHANGED alarm
            /\ pc' = "cancel_alarm"
    /\ UNCHANGED <<use_youtube, dur, character_info, waitStart, verdict,
                   use_realtime_display, console_status, display_loop, sys_stdout, plain_info>>
    /\ UNCHANGED <<collVars, srchVars, extVars>>

\* signal.alarm(0), console_display.stop() when a display was made, and
\* `return character_info` (221-231).
CancelAlarm ==
    /\ pc = "cancel_alarm"
    /\ alarm' = IF alarm = "armed" THEN "cancelled" ELSE alarm
    /\ pc' = "returned"
    /\ IF display_loop # "none"
       THEN /\ display_loop' = console_display_stop.display_loop
            /\ sys_stdout' = console_display_stop.sys_stdout
       ELSE UNCHANGED <<display_loop, sys_stdout>>
    /\ UNCHANGED <<use_youtube, dur, clock, character_info, waitStart, verdict,
                   use_realtime_display, console_status, plain_info>>
    /\ UNCHANGED <<collVars, srchVars, extVars>>

(***************************************************************************)
(* The per-query loops of the web-search collectors, one search request    *)
(* per step: BingCollector._search_single_pattern,                         *)
(* GoogleCollector._search_single_pattern_fallback and                     *)
(* DuckDuckGoCollector._search_pattern, driven by collect_info's loop over *)
(* the search patterns.                                                    *)
(***************************************************************************)
MAX_RETRIES == 3
RETRY_DELAY == 30
GOOGLE_FALLBACK_MAX_RETRIES == 2
GOOGLE_FALLBACK_RETRY_DELAY == 30
GOOGLE_429_EXTRA_DELAY == 60
GOOGLE_PATTERN_TIMEOUT == 90

SearchEngines == {"bing", "google", "duckduckgo"}
DdgResponses == {"ok", "http_429", "empty", "raise"}

RECURSIVE SumSeq(_)
SumSeq(s) == IF s = <<>> THEN 0 ELSE Head(s) + SumSeq(Tail(s))

\* The exception that reaches `except Exception as search_error` of
\* BingCollector._search_single_pattern (146) when the search request is
\* answered resp: _perform_bing_search catches every exception of the request,
\* raise_for_status included, and returns a list (179-240).
bing_search_error(resp) == "none"

\* The same for GoogleCollector._search_single_pattern_fallback (424):
\* search_with_timeout (350-363) and _fallback_google_search (486-518) catch
\* every exception of the request and return a list.
google_search_error(resp) == "none"

\* wait_time of BingCollector._search_single_pattern (154)
bing_wait_time(retry) == RETRY_DELAY * (retry + 1)

\* wait_time of GoogleCollector._search_single_pattern_fallback (443)
google_wait_time(retry) == GOOGLE_429_EXTRA_DELAY + GOOGLE_FALLBACK_RETRY_DELAY * (retry + 1)

SrchInit ==
    /\ sEngine = "none"
    /\ sQuery = 1
    /\ sRetry = 0
    /\ sAttempts = [p \in Patterns |-> 0]
    /\ sFirst = [p \in Patterns |-> "none"]
    /\ sSleeps = [p \in Patterns |-> <<>>]
    /\ sState = [p \in Patterns |-> "pending"]
    /\ sResults = <<>>

\* collect_info of one of the three collectors is entered.
StartSearch ==
    /\ sEngine = "none"
    /\ sEngine' \in SearchEngines
    /\ UNCHANGED <<sQuery, sRetry, sAttempts, sFirst, sSleeps, sState, sResults>>
    /\ UNCHANGED <<orchVars, collVars, extVars>>

\* The per-query function returns; collect_info extends all_results and goes
\* on with the next pattern.
EndQuery(how, items) ==
    /\ sState' = [sState EXCEPT ![sQuery] = how]
    /\ sResults' = sResults \o items
    /\ sQuery' = sQuery + 1
    /\ sRetry' = 0

Sent(resp) ==
    /\ sAttempts' = [sAttempts EXCEPT ![sQuery] = @ + 1]
    /\ sFirst' = [sFirst EXCEPT ![sQuery] = IF sAttempts[sQuery] = 0 THEN resp ELSE @]

\* One pass of `for retry in range(max_retries)` with its except clause:
\* no exception: the items are kept and the loop is left by break;
\* a rate-limit exception before the last pass: sleep wait_time and continue;
\* any other exception, or the last pass: break.
RetryPass(search_error, items, max_retries, wait_time) ==
    IF search_error = "none"
    THEN EndQuery("done", items) /\ UNCHANGED sSleeps
    ELSE IF search_error = "http_429" /\ sRetry < max_retries - 1
    THEN /\ sSleeps' = [sSleeps EXCEPT ![sQuery] = Append(@, wait_time)]
         /\ sRetry' = sRetry + 1
         /\ UNCHANGED <<sQuery, sState, sResults>>
    ELSE EndQuery("skipped", <<>>) /\ UNCHANGED sSleeps

\* BingCollector._search_single_pattern (99-164), one pass.
BingSearchPass ==
    /\ sEngine = "bing"
    /\ sQuery \in Patterns
    /\ \E resp \in SearchResponses : \E g \in PageEnvs :
          /\ Sent(resp)
          /\ RetryPass(bing_search_error(resp),
                       pages_kept(sQuery, perform_bing_search(resp), g),
                       MAX_RETRIES, bing_wait_time(sRetry))
    /\ UNCHANGED sEngine
    /\ UNCHANGED <<orchVars, collVars, extVars>>

\* GoogleCollector._search_single_pattern_fallback (300-470), one pass.  The
\* pass starts with the pattern-timeout check (321-324): time already slept
\* for this query is a lower bound of the time elapsed.
GoogleSearchPass ==
    /\ sEngine = "google"
    /\ sQuery \in Patterns
    /\ IF SumSeq(sSleeps[sQuery]) >= GOOGLE_PATTERN_TIMEOUT
       THEN /\ EndQuery("skipped", <<>>)
            /\ UNCHANGED <<sAttempts, sFirst, sSleeps>>
       ELSE \E resp \in SearchResponses : \E g \in PageEnvs :
              LET urls == search_with_timeout(resp)
              IN  /\ Sent(resp)
                  /\ RetryPass(google_search_error(resp),
                               [i \in 1..Len(urls) |-> Item(sQuery, urls[i], "raw_url_string")]
                                   \o pages_kept(sQuery, urls, g),
                               GOOGLE_FALLBACK_MAX_RETRIES, google_wait_time(sRetry))
    /\ UNCHANGED sEngine
    /\ UNCHANGED <<orchVars, collVars, extVars>>

\* DuckDuckGoCollector._search_pattern (117-162), one search method: sRetry
\* is the index of the method in `methods`.  A status other than 200 makes the
\* method return [] (184-189), a raising method is skipped by `continue`; in
\* both cases the next method is tried at once.
DdgMethodPass ==
    /\ sEngine = "duckduckgo"
    /\ sQuery \in Patterns
    /\ \E resp \in DdgResponses :
          /\ Sent(resp)
          /\ IF resp = "ok"
             THEN EndQuery("done", [i \in 1..MaxUrls |-> Item(sQuery, i, "description")])
             ELSE IF sRetry < Len(DdgMethods) - 1
             THEN /\ sRetry' = sRetry + 1
                  /\ UNCHANGED <<sQuery, sState, sResults>>
             ELSE EndQuery("done", <<>>)
    /\ UNCHANGED <<sEngine, sSleeps>>
    /\ UNCHANGED <<orchVars, collVars, extVars>>

(***************************************************************************)
(* utils/http_client.py: safe_http_get and BaseHTTPClient.get, one         *)
(* session.get attempt per step.                                           *)
(***************************************************************************)
MaxHttpRetries == 2

HTTP_SKIP_RETRY_STATUS_CODES == {404, 403, 406, 410, 503}
HttpErrorStatuses == HTTP_SKIP_RETRY_STATUS_CODES \cup {429, 500}

\* What one session.get + raise_for_status can do: return a response, or
\* raise HTTPError carrying the response, Timeout, ConnectionError or
\* another RequestException.  status is the response's status where there is
\* a response.
AttemptOutcomes ==
    {[kind |-> "ok", status |-> 200]}
    \cup {[kind |-> "http_error", status |-> s] : s \in HttpErrorStatuses}
    \cup {[kind |-> k, status |-> 0] : k \in {"timeout", "connection_error", "request_error"}}

\* Truth value of a requests.Response object, as tested by
\* `if http_err.response`: Response.__bool__ is Response.ok, which is true
\* only for a status below 400.
Response_bool(status) == status < 400

\* status_code = http_err.response.status_code if http_err.response else 'unknown'
\* (known = FALSE stands for the string 'unknown')
http_status_code(o) ==
    IF Response_bool(o.status) THEN [known |-> TRUE, code |-> o.status]
    ELSE [known |-> FALSE, code |-> 0]

\* if status_code in [404, 403, 406, 410, 503]: raise http_err
skip_retry(o) ==
    /\ o.kind = "http_error"
    /\ http_status_code(o).known
    /\ http_status_code(o).code \in HTTP_SKIP_RETRY_STATUS_CODES

\* The factor of wait_time in the except clause that catches the outcome.
wait_multiplier(kind) ==
    CASE kind = "http_error" -> 2
      [] kind = "timeout" -> 3
      [] kind = "connection_error" -> 4
      [] kind = "request_error" -> 2

\* A wait that does not grow with the attempt number.
http_wait_time_flat(attempt, kind) == wait_multiplier(kind)

\* wait_time = (attempt + 1) * factor
http_wait_time(attempt, kind) == (attempt + 1) * wait_multiplier(kind)

\* safe_http_get's except clauses: every exception raised by get ends in
\* `return None`.
safe_http_get_except(kind) == "null"

\* URLs are strings of characters; the ones given to safe_http_get are a
\* head (nothing, a scheme, a near miss of one, slashes) followed by up to
\* MaxUrlTail characters.
MaxUrlTail == 2

Str_http == <<"h", "t", "t", "p", ":", "/", "/">>
Str_https == <<"h", "t", "t", "p", "s", ":", "/", "/">>

UrlHeads ==
    {<<>>, Str_http, Str_https, <<"/", "/">>, <<"/">>, <<"H", "T", "T", "P", ":", "/", "/">>,
     <<"h", "t", "t", "p", ":", "/">>}

Urls_given ==
    {h \o t : h \in UrlHeads,
               t \in UNION {[1..n -> {"a", "/"}] : n \in 0..MaxUrlTail}}

\* str.startswith
startswith(s, prefix) ==
    Len(s) >= Len(prefix) /\ SubSeq(s, 1, Len(prefix)) = prefix

\* A validation that prepends the scheme to every URL without one.
validate_url_always_prepend(url) ==
    IF url = <<>> THEN <<>>
    ELSE IF ~(startswith(url, Str_http) \/ startswith(url, Str_https))
    THEN Str_https \o url
    ELSE url

\* validate_url
validate_url(url) ==
    IF url = <<>> THEN <<>>
    ELSE IF ~(startswith(url, Str_http) \/ startswith(url, Str_https))
    THEN IF startswith(url, <<"/", "/">>) THEN <<"h", "t", "t", "p", "s", ":">> \o url
         ELSE IF startswith(url, <<"/">>) THEN <<>>
         ELSE Str_https \o url
    ELSE url

HttpInit ==
    /\ hState = "idle"
    /\ hMaxRetries = 0
    /\ hOutcomes = <<>>
    /\ hSleeps = <<>>
    /\ hResult = "none"
    /\ hUrl = [url |-> <<>>, requested |-> <<>>]

\* safe_http_get(url, max_retries) up to the call of client.get: a URL that
\* validate_url turns into "" gives None at once.
SafeHttpGetCall ==
    /\ hState = "idle"
    /\ \E url \in Urls_given : \E n \in 0..MaxHttpRetries :
          /\ hUrl' = [url |-> url, requested |-> validate_url(url)]
          /\ IF validate_url(url) # <<>>
             THEN /\ hState' = "running"
                  /\ hMaxRetries' = n
                  /\ UNCHANGED hResult
             ELSE /\ hState' = "done"
                  /\ hResult' = "null"
                  /\ UNCHANGED hMaxRetries
    /\ UNCHANGED <<hOutcomes, hSleeps>>
    /\ UNCHANGED <<orchVars, collVars, srchVars, genVars, extrVars, logVars, mainVars, youVars, promptVars, wikiVars>>

\* One pass of `for attempt in range(max_retries + 1)` of BaseHTTPClient.get
\* and, when get returns or raises, the rest of safe_http_get.
HttpAttempt ==
    /\ hState = "running"
    /\ \E o \in AttemptOutcomes :
        LET attempt == Len(hOutcomes)
        IN  /\ hOutcomes' = Append(hOutcomes, o)
            /\ IF o.kind = "ok"
               THEN /\ hState' = "done"
                    /\ hResult' = "response"
                    /\ UNCHANGED hSleeps
               ELSE IF skip_retry(o) \/ attempt >= hMaxRetries
               THEN /\ hState' = "done"
                    /\ hResult' = safe_http_get_except(o.kind)
                    /\ UNCHANGED hSleeps
               ELSE /\ hSleeps' = Append(hSleeps, http_wait_time(attempt, o.kind))
                    /\ UNCHANGED <<hState, hResult>>
    /\ UNCHANGED <<hMaxRetries, hUrl>>
    /\ UNCHANGED <<orchVars, collVars, srchVars, genVars, extrVars, logVars, mainVars, youVars, promptVars, wikiVars>>


(***************************************************************************)
(* generators/prompt_generator.py: PromptGenerator.generate_voice_prompt,  *)
(* one LLM stage per step.  A text is a record: by = "llm" for the content *)
(* of an LLM response, by = "template" for a text built by the code from   *)
(* its arguments alone.                                                    *)
(***************************************************************************)
MaxGoogleResults == 1

\* The fields of character_info the generator reads.
GenInputs ==
    [has_name : BOOLEAN, wikipedia_found : BOOLEAN,
     google_results_count : 0..MaxGoogleResults, youtube_found : BOOLEAN]

NoText == [by |-> "none"]

\* character_info.get("name", "unknown")
character_name(ci) == IF ci.has_name THEN "X" ELSE "unknown"

\* PromptGenerator._organize_information (the fields the fallback uses)
organize_information(ci) ==
    [name |-> IF ci.has_name THEN "X" ELSE "unknown_ja",
     wikipedia_found |-> ci.wikipedia_found,
     google_results_count |-> ci.google_results_count,
     youtube_found |-> ci.youtube_found]

\* PromptGenerator._generate_fallback_prompt: the template text, with the
\* name and the list of information sources it mentions.
generate_fallback_prompt(ci) ==
    LET organized_info == organize_information(ci)
    IN  [by |-> "template", text |-> "fallback_prompt",
         name |-> IF ci.has_name THEN "X" ELSE "unknown_character_ja",
         info_sources |->
            (IF organized_info.wikipedia_found THEN <<"Wikipedia">> ELSE <<>>)
            \o (IF organized_info.google_results_count > 0 THEN <<"Google">> ELSE <<>>)
            \o (IF organized_info.youtube_found THEN <<"YouTube">> ELSE <<>>)]

\* An introduction stage whose except clause returns the template without
\* the fallback mark.
generate_character_introduction_unmarked(role_prompt, name, llm_ok) ==
    IF llm_ok
    THEN [introduction_text |-> [by |-> "llm", text |-> "introduction"],
          api_interaction |-> [prompt |-> role_prompt, response |-> "introduction",
                               model |-> "model", character_name |-> name]]
    ELSE [introduction_text |-> [by |-> "template", text |-> "introduction", name |-> name],
          api_interaction |-> [error |-> "llm_error", error_type |-> "Exception",
                               character_name |-> name]]

\* PromptGenerator._generate_character_introduction(role_prompt, character_name);
\* llm_ok is FALSE when the chat.completions.create call (or reading its
\* response) raises.
generate_character_introduction(role_prompt, name, llm_ok) ==
    IF llm_ok
    THEN [introduction_text |-> [by |-> "llm", text |-> "introduction"],
          api_interaction |-> [prompt |-> role_prompt, response |-> "introduction",
                               model |-> "model", character_name |-> name]]
    ELSE [introduction_text |-> [by |-> "template", text |-> "introduction", name |-> name],
          api_interaction |-> [error |-> "llm_error", error_type |-> "Exception",
                               fallback_used |-> TRUE, character_name |-> name]]

\* PromptGenerator._generate_policy_safe_prompt(original_prompt, character_name)
generate_policy_safe_prompt(original_prompt, name, llm_ok) ==
    IF llm_ok
    THEN [safe_prompt |-> [by |-> "llm", text |-> "safe_prompt"],
          api_interaction |-> [prompt |-> original_prompt, response |-> "safe_prompt",
                               model |-> "model", character_name |-> name]]
    ELSE [safe_prompt |-> [by |-> "template", text |-> "safe_prompt", name |-> name],
          api_interaction |-> [error |-> "llm_error", error_type |-> "Exception",
                               fallback_used |-> TRUE, character_name |-> name]]

\* api_interaction of the record generate_voice_prompt returns (66-72, 99-103)
voice_prompt_api_interaction(ci, main_ok) ==
    IF main_ok
    THEN [system_prompt |-> "system_prompt", user_prompt |-> "user_prompt",
          response |-> "generated_prompt", model |-> "model",
          character_name |-> character_name(ci)]
    ELSE [error |-> "llm_error", fallback_used |-> TRUE,
          character_name |-> character_name(ci)]

GenInit ==
    /\ gState = "idle"
    /\ gInfo = [has_name |-> TRUE, wikipedia_found |-> FALSE,
                google_results_count |-> 0, youtube_found |-> FALSE]
    /\ gCalls = <<>>
    /\ gPrompt = NoText
    /\ gIntroduction = NoText
    /\ gOutput = NoText

\* generate_voice_prompt up to generated_prompt (try body 34-56) or, when the
\* main LLM call raises, up to fallback_prompt (except clause 79-90).
GenerateMain ==
    /\ gState = "idle"
    /\ \E ci \in GenInputs : \E ok \in BOOLEAN :
          /\ gInfo' = ci
          /\ gCalls' = <<ok>>
          /\ gPrompt' = IF ok THEN [by |-> "llm", text |-> "generated_prompt"]
                        ELSE generate_fallback_prompt(ci)
    /\ gState' = "main"
    /\ UNCHANGED <<gIntroduction, gOutput>>
    /\ UNCHANGED <<orchVars, collVars, srchVars, httpVars, extrVars, logVars, mainVars, youVars, promptVars, wikiVars>>

\* character_introduction = self._generate_character_introduction(...) (59, 93)
GenerateIntroduction ==
    /\ gState = "main"
    /\ \E ok \in BOOLEAN :
          /\ gCalls' = Append(gCalls, ok)
          /\ gIntroduction' =
                generate_character_introduction(gPrompt, character_name(gInfo), ok)
    /\ gState' = "introduction"
    /\ UNCHANGED <<gInfo, gPrompt, gOutput>>
    /\ UNCHANGED <<orchVars, collVars, srchVars, httpVars, extrVars, logVars, mainVars, youVars, promptVars, wikiVars>>

\* policy_safe_prompt = self._generate_policy_safe_prompt(...) (62, 96) and
\* the return statement (65-73, 98-105).
GeneratePolicySafeAndReturn ==
    /\ gState = "introduction"
    /\ \E ok \in BOOLEAN :
          /\ gCalls' = Append(gCalls, ok)
          /\ gOutput' =
                [by |-> "generate_voice_prompt",
                 generated_prompt |-> gPrompt,
                 policy_safe_prompt |->
                    generate_policy_safe_prompt(gPrompt, character_name(gInfo), ok),
                 character_introduction |-> gIntroduction,
                 api_interaction |-> voice_prompt_api_interaction(gInfo, gCalls[1])]
    /\ gState' = "returned"
    /\ UNCHANGED <<gInfo, gPrompt, gIntroduction>>
    /\ UNCHANGED <<orchVars, collVars, srchVars, httpVars, extrVars, logVars, mainVars, youVars, promptVars, wikiVars>>


(***************************************************************************)
(* Speech-pattern extraction: OpenAIClient.extract_speech_patterns         *)
(* (utils/api_client.py), BingCollector._extract_speech_patterns,          *)
(* ChatGPTCollector._extract_speech_patterns_from_result and               *)
(* TextProcessor.extract_speech_patterns_from_chatgpt_result.              *)
(***************************************************************************)
MaxLines == 12
MaxMatches == 4
MaxQuoteMatches == 6

OPENAI_MAX_SPEECH_PATTERNS == 10
BING_MAX_SPEECH_PATTERNS == 10
CHATGPT_MAX_PATTERNS == 10
CHATGPT_MAX_QUOTES == 5
CHATGPT_MIN_QUOTE_LENGTH == 3
TEXT_PROCESSOR_MAX_PATTERNS == 10
TEXT_PROCESSOR_MAX_QUOTES == 5
TEXT_PROCESSOR_MIN_QUOTE_LENGTH == 3

\* Python's s[:n]
SliceTo(s, n) == SubSeq(s, 1, IF Len(s) < n THEN Len(s) ELSE n)

LlmOps == {"OpenAIClient.extract_speech_patterns", "BingCollector._extract_speech_patterns"}
RegexOps == {"ChatGPTCollector._extract_speech_patterns_from_result",
             "TextProcessor.extract_speech_patterns_from_chatgpt_result"}

\* Input of an LLM-based extraction: whether text is empty, whether an API
\* key was passed, whether the LLM call raises, and the answer: lines lines,
\* all of them of the form "label: value" (style "all"), every second one
\* (style "mixed") or none (style "none").
LlmInputs ==
    [text_empty : BOOLEAN, api_key : BOOLEAN, llm_raises : BOOLEAN,
     lines : 0..MaxLines, style : {"all", "mixed", "none"}]

result_lines(in) ==
    [i \in 1..in.lines |->
        [no |-> i,
         colon |-> (in.style = "all" \/ (in.style = "mixed" /\ i % 2 = 1))]]

\* for line in result_text.split('\n'): if line and ':' in line: append
parse_lines(lines) == SelectSeq(lines, LAMBDA l : l.colon)

NoRaise(value) == [raised |-> FALSE, value |-> value]

\* An extraction that returns every parsed line.
openai_extract_speech_patterns_uncapped(in) ==
    IF in.text_empty \/ in.llm_raises THEN NoRaise(<<>>)
    ELSE NoRaise(parse_lines(result_lines(in)))

\* OpenAIClient.extract_speech_patterns: the whole body is inside
\* try/except Exception, the except clause returns [].
openai_extract_speech_patterns(in) ==
    IF in.text_empty THEN NoRaise(<<>>)
    ELSE IF in.llm_raises THEN NoRaise(<<>>)
    ELSE NoRaise(SliceTo(parse_lines(result_lines(in)), OPENAI_MAX_SPEECH_PATTERNS))

\* BingCollector._extract_speech_patterns
bing_extract_speech_patterns(in) ==
    IF in.text_empty \/ ~in.api_key THEN NoRaise(<<>>)
    ELSE IF in.llm_raises THEN NoRaise(<<>>)
    ELSE NoRaise(SliceTo(parse_lines(result_lines(in)), BING_MAX_SPEECH_PATTERNS))

\* Input of a regex-based extraction: whether text is empty, whether
\* character_name is None (character_name.lower() then raises), the number of
\* matches of the pronoun, ending and habit expressions, the number of quoted
\* spans (odd ones 5 characters long, even ones 2), whether the text holds
\* one of the two feature words.
RegexInputs ==
    [text_empty : BOOLEAN, name_none : BOOLEAN, pronouns : 0..MaxMatches,
     endings : 0..MaxMatches, habits : 0..MaxMatches, quotes : 0..MaxQuoteMatches,
     feature : BOOLEAN]

labelled(label, n) == [i \in 1..n |-> [label |-> label, no |-> i]]

quote_matches(in) == [i \in 1..in.quotes |-> [no |-> i, len |-> IF i % 2 = 1 THEN 5 ELSE 2]]

\* The body shared by the two regex-based functions: pronoun, ending and
\* habit matches, then the first max_quotes quoted spans longer than
\* min_length, then the feature entry; an exception (here
\* character_name.lower() on None, evaluated for the first span longer than
\* min_length) leaves the try block with the entries appended so far, and
\* the return statement after the except clause slices them.
regex_extract(in, max_quotes, min_length, max_patterns) ==
    LET head == labelled("pronoun", in.pronouns) \o labelled("ending", in.endings)
                  \o labelled("habit", in.habits)
        considered == SliceTo(quote_matches(in), max_quotes)
        long == SelectSeq(considered, LAMBDA q : q.len > min_length)
        quoted == [i \in 1..Len(long) |-> [label |-> "quote", no |-> long[i].no]]
        tail == IF in.feature THEN <<[label |-> "feature", no |-> 1]>> ELSE <<>>
    IN  IF in.text_empty THEN NoRaise(<<>>)
        ELSE IF in.name_none /\ long # <<>>
        THEN NoRaise(SliceTo(head, max_patterns))
        ELSE NoRaise(SliceTo(head \o quoted \o tail, max_patterns))

\* ChatGPTCollector._extract_speech_patterns_from_result
chatgpt_extract_speech_patterns_from_result(in) ==
    regex_extract(in, CHATGPT_MAX_QUOTES, CHATGPT_MIN_QUOTE_LENGTH, CHATGPT_MAX_PATTERNS)

\* TextProcessor.extract_speech_patterns_from_chatgpt_result
text_processor_extract_speech_patterns(in) ==
    regex_extract(in, TEXT_PROCESSOR_MAX_QUOTES, TEXT_PROCESSOR_MIN_QUOTE_LENGTH,
                  TEXT_PROCESSOR_MAX_PATTERNS)

ExtrInit ==
    /\ xOp = "none"
    /\ xInput = [text_empty |-> TRUE]
    /\ xOutput = NoRaise(<<>>)

\* One call of an LLM-based extraction function.
ExtractWithLLM ==
    /\ xOp = "none"
    /\ \E op \in LlmOps : \E in \in LlmInputs :
          /\ xOp' = op
          /\ xInput' = in
          /\ xOutput' = IF op = "OpenAIClient.extract_speech_patterns"
                        THEN openai_extract_speech_patterns(in)
                        ELSE bing_extract_speech_patterns(in)
    /\ UNCHANGED <<orchVars, collVars, srchVars, httpVars, genVars, logVars, mainVars, youVars, promptVars, wikiVars>>

\* One call of a regex-based extraction function.
ExtractWithRegex ==
    /\ xOp = "none"
    /\ \E op \in RegexOps : \E in \in RegexInputs :
          /\ xOp' = op
          /\ xInput' = in
          /\ xOutput' = IF op = "ChatGPTCollector._extract_speech_patterns_from_result"
                        THEN chatgpt_extract_speech_patterns_from_result(in)
                        ELSE text_processor_extract_speech_patterns(in)
    /\ UNCHANGED <<orchVars, collVars, srchVars, httpVars, genVars, logVars, mainVars, youVars, promptVars, wikiVars>>


(***************************************************************************)
(* utils/execution_logger.py as used by the branch threads.                *)
(*                                                                         *)
(* CharacterInfoService hands self.logger to every branch function; each   *)
(* of them calls log_step("..._collection", "start"), collects, then calls *)
(* log_step(..., "success") and log_performance_metric.  Every one of      *)
(* these calls changes execution_log and runs _save_log, which opens the   *)
(* session file and then latest_execution_log.json with mode 'w' and       *)
(* json.dump()s the live execution_log into each.  No lock is taken.  A    *)
(* thread can be preempted between any two steps below; json.dump with     *)
(* indent runs the Python encoder, which reads the live list and dict      *)
(* entry by entry, and an entry of the document is one write at the file   *)
(* object's own position.                                                  *)
(***************************************************************************)
MaxLogBranches == 2

BranchSeq == <<"wikipedia", "web_search", "youtube">>
LogFileNames == <<"session", "latest">>

\* The branch functions' calls into the logger, in order.
LogCalls == <<"log_step_start", "collect", "log_step_success", "log_performance_metric", "return">>

IdleSave == [phase |-> "idle", file |-> 1, pos |-> 0, i |-> 0, size |-> 0]

\* json.dump(self.execution_log, f): the document of a log, entry by entry.
dump(log) == <<<<"{">>>> \o log.steps \o log.performance \o <<<<"}">>>>

\* f.write at position pos of a file whose content another file object may
\* have truncated meanwhile: the gap reads as NUL.
write_at(content, pos, token) ==
    [k \in 1..(IF pos + 1 > Len(content) THEN pos + 1 ELSE Len(content)) |->
        IF k = pos + 1 THEN token
        ELSE IF k <= Len(content) THEN content[k]
        ELSE <<"NUL">>]

\* The change log_step / log_performance_metric makes to execution_log.
log_change(log, t, call) ==
    IF call = "log_performance_metric"
    THEN [log EXCEPT !.performance = Append(@, <<t, "duration">>)]
    ELSE [log EXCEPT !.steps =
            Append(@, <<t, IF call = "log_step_start" THEN "start" ELSE "success">>)]

\* ExecutionLogger.__init__ and main's first calls (one main_start step), run
\* by the main thread before the branches are submitted; both files hold
\* the document of that log.
LogStart ==
    /\ \E n \in 2..MaxLogBranches :
          lThreads = {BranchSeq[k] : k \in 1..(IF n > 3 THEN 3 ELSE n)}
    /\ lpc = [t \in {BranchSeq[k] : k \in 1..3} |-> 1]
    /\ lSave = [t \in {BranchSeq[k] : k \in 1..3} |-> IdleSave]
    /\ execution_log = [steps |-> <<<<"main", "start">>>>, performance |-> <<>>]
    /\ lFiles = [f \in 1..2 |-> dump([steps |-> <<<<"main", "start">>>>, performance |-> <<>>])]
    /\ lWriters = {}

LogInit ==
    /\ lThreads = {}
    /\ lpc = [t \in {BranchSeq[k] : k \in 1..3} |-> 1]
    /\ lSave = [t \in {BranchSeq[k] : k \in 1..3} |-> IdleSave]
    /\ execution_log = [steps |-> <<>>, performance |-> <<>>]
    /\ lFiles = [f \in 1..2 |-> <<>>]
    /\ lWriters = {}

\* log_step / log_performance_metric up to the call of _save_log.
LogCall ==
    \E t \in lThreads :
        /\ LogCalls[lpc[t]] \in {"log_step_start", "log_step_success", "log_performance_metric"}
        /\ lSave[t].phase = "idle"
        /\ execution_log' = log_change(execution_log, t, LogCalls[lpc[t]])
        /\ lWriters' = lWriters \cup {t}
        /\ lSave' = [lSave EXCEPT ![t] = [IdleSave EXCEPT !.phase = "open", !.file = 1]]
        /\ UNCHANGED <<lThreads, lpc, lFiles>>
        /\ UNCHANGED <<orchVars, collVars, srchVars, httpVars, genVars, extrVars, mainVars, youVars, promptVars, wikiVars>>

\* open(log_file, 'w'): the file is truncated, the new file object is at 0.
LogOpen ==
    \E t \in lThreads :
        /\ lSave[t].phase = "open"
        /\ lFiles' = [lFiles EXCEPT ![lSave[t].file] = <<>>]
        /\ lSave' = [lSave EXCEPT ![t].phase = "head", ![t].pos = 0, ![t].i = 0]
        /\ UNCHANGED <<lThreads, lpc, execution_log, lWriters>>
        /\ UNCHANGED <<orchVars, collVars, srchVars, httpVars, genVars, extrVars, mainVars, youVars, promptVars, wikiVars>>

\* The state _save_log is in once one file is closed (or the dump raised).
after_file(sv, raised) ==
    IF ~raised /\ sv.file = 1 THEN [IdleSave EXCEPT !.phase = "open", !.file = 2]
    ELSE IdleSave

\* One entry of json.dump: the encoder reads the live execution_log.  A
\* dict that changed size since its iteration began raises RuntimeError,
\* which the `except Exception` of _save_log catches (170-171): the file is
\* left as it is and the second file is not written.
LogWrite ==
    \E t \in lThreads :
        LET sv == lSave[t]
            steps == execution_log.steps
            perf == execution_log.performance
            put(token) == lFiles' = [lFiles EXCEPT ![sv.file] = write_at(@, sv.pos, token)]
            goto(ph, i, size) ==
                lSave' = [lSave EXCEPT ![t] = [sv EXCEPT !.phase = ph, !.pos = sv.pos + 1,
                                                       !.i = i, !.size = size]]
            finish(raised) ==
                /\ lSave' = [lSave EXCEPT ![t] = after_file(sv, raised)]
                /\ lpc' = [lpc EXCEPT ![t] =
                             IF after_file(sv, raised).phase = "idle" THEN @ + 1 ELSE @]
        IN  /\ sv.phase \in {"head", "steps", "performance"}
            /\ CASE sv.phase = "head" ->
                      /\ put(<<"{">>)
                      /\ goto("steps", 1, 0)
                      /\ UNCHANGED lpc
                 [] sv.phase = "steps" /\ sv.i <= Len(steps) ->
                      /\ put(steps[sv.i])
                      /\ goto("steps", sv.i + 1, 0)
                      /\ UNCHANGED lpc
                 [] sv.phase = "steps" /\ sv.i > Len(steps) /\ perf # <<>> ->
                      /\ put(perf[1])
                      /\ goto("performance", 2, Len(perf))
                      /\ UNCHANGED lpc
                 [] sv.phase = "steps" /\ sv.i > Len(steps) /\ perf = <<>> ->
                      /\ put(<<"}">>)
                      /\ finish(FALSE)
                 [] sv.phase = "performance" /\ Len(perf) # sv.size ->
                      /\ UNCHANGED lFiles
                      /\ finish(TRUE)
                 [] sv.phase = "performance" /\ Len(perf) = sv.size /\ sv.i <= Len(perf) ->
                      /\ put(perf[sv.i])
                      /\ goto("performance", sv.i + 1, sv.size)
                      /\ UNCHANGED lpc
                 [] sv.phase = "performance" /\ Len(perf) = sv.size /\ sv.i > Len(perf) ->
                      /\ put(<<"}">>)
                      /\ finish(FALSE)
            /\ UNCHANGED <<lThreads, execution_log, lWriters>>
            /\ UNCHANGED <<orchVars, collVars, srchVars, httpVars, genVars, extrVars, mainVars, youVars, promptVars, wikiVars>>

\* collector.collect_info(name, logger=self.logger) between the two log_step
\* calls of a branch function.
BranchCollect ==
    \E t \in lThreads :
        /\ LogCalls[lpc[t]] = "collect"
        /\ lpc' = [lpc EXCEPT ![t] = @ + 1]
        /\ UNCHANGED <<lThreads, lSave, execution_log, lFiles, lWriters>>
        /\ UNCHANGED <<orchVars, collVars, srchVars, httpVars, genVars, extrVars, mainVars, youVars, promptVars, wikiVars>>


(***************************************************************************)
(* main.py: main().                                                        *)
(***************************************************************************)
ArgSets ==
    [no_youtube : BOOLEAN, no_google : BOOLEAN, use_duckduckgo : BOOLEAN,
     use_bing : BOOLEAN, use_chatgpt_search : BOOLEAN, api_key : BOOLEAN]

NoArgs ==
    [no_youtube |-> FALSE, no_google |-> FALSE, use_duckduckgo |-> FALSE,
     use_bing |-> FALSE, use_chatgpt_search |-> FALSE, api_key |-> FALSE]

\* search_flags = [args.use_duckduckgo, args.use_bing, args.use_chatgpt_search]
search_flags(a) == <<a.use_duckduckgo, a.use_bing, a.use_chatgpt_search>>

\* Python's sum over a list of bool
RECURSIVE sum(_)
sum(bs) == IF bs = <<>> THEN 0 ELSE (IF Head(bs) THEN 1 ELSE 0) + sum(Tail(bs))

\* A conflict test that only rejects all three flags together.
flags_conflict_all_three(a) == sum(search_flags(a)) > 2

\* if sum(search_flags) > 1
flags_conflict(a) == sum(search_flags(a)) > 1

\* The collector classes collect_character_info invokes.
collectors_invoked(a) ==
    {"WikipediaCollector",
     EngineClass(determine_best_search_engine(a.use_chatgpt_search, a.use_bing,
                                              a.use_duckduckgo, ~a.no_google))}
    \cup (IF a.no_youtube THEN {} ELSE {"YouTubeCollector"})

\* A main whose except clause ends without sys.exit(1).
main_exit_status_always_zero(raised) == 0

\* The status main ends with after the API key check: sys.exit(1) at the end
\* of `except Exception` (333), 0 when main() returns.
main_exit_status(raised) == IF raised THEN 1 ELSE 0

MainInit ==
    /\ mpc = "start" /\ args = NoArgs /\ exit_status = "none"
    /\ mLogFile = FALSE /\ mInvoked = {} /\ mLlm = FALSE /\ mRaised = FALSE

\* parser.parse_args()
MainParse ==
    /\ mpc = "start"
    /\ args' \in ArgSets
    /\ mpc' = "flag_check"
    /\ UNCHANGED <<exit_status, mLogFile, mInvoked, mLlm, mRaised>>
    /\ UNCHANGED <<orchVars, collVars, srchVars, httpVars, genVars, extrVars, logVars, youVars, promptVars, wikiVars>>

\* The conflict check of the search-engine flags: sys.exit(1).
MainFlagCheck ==
    /\ mpc = "flag_check"
    /\ IF flags_conflict(args)
       THEN mpc' = "exited" /\ exit_status' = 1
       ELSE mpc' = "start_log" /\ UNCHANGED exit_status
    /\ UNCHANGED <<args, mLogFile, mInvoked, mLlm, mRaised>>
    /\ UNCHANGED <<orchVars, collVars, srchVars, httpVars, genVars, extrVars, logVars, youVars, promptVars, wikiVars>>

\* ExecutionLogger(), set_character_name, log_step("main_start", ...): the
\* log_step call saves the log, which creates both log files.
MainStartLog ==
    /\ mpc = "start_log"
    /\ mLogFile' = TRUE
    /\ mpc' = "key_check"
    /\ UNCHANGED <<args, exit_status, mInvoked, mLlm, mRaised>>
    /\ UNCHANGED <<orchVars, collVars, srchVars, httpVars, genVars, extrVars, logVars, youVars, promptVars, wikiVars>>

\* api_key = args.api_key or os.environ.get("OPENAI_API_KEY"); without one:
\* log_error and sys.exit(1).
MainKeyCheck ==
    /\ mpc = "key_check"
    /\ IF ~args.api_key
       THEN mpc' = "exited" /\ exit_status' = 1
       ELSE mpc' = "collect" /\ UNCHANGED exit_status
    /\ UNCHANGED <<args, mLogFile, mInvoked, mLlm, mRaised>>
    /\ UNCHANGED <<orchVars, collVars, srchVars, httpVars, genVars, extrVars, logVars, youVars, promptVars, wikiVars>>

\* info_service.collect_character_info(...): the collectors run; whether one
\* of them reaches the LLM and whether the call raises (caught by main's
\* except clause, which ends in sys.exit(1)) depends on the backends.
MainCollect ==
    /\ mpc = "collect"
    /\ mInvoked' = collectors_invoked(args)
    /\ mLlm' \in BOOLEAN
    /\ \E raised \in BOOLEAN :
          /\ mRaised' = raised
          /\ IF raised THEN mpc' = "exited" /\ exit_status' = main_exit_status(TRUE)
             ELSE mpc' = "generate" /\ UNCHANGED exit_status
    /\ UNCHANGED <<args, mLogFile>>
    /\ UNCHANGED <<orchVars, collVars, srchVars, httpVars, genVars, extrVars, logVars, youVars, promptVars, wikiVars>>

\* generate_voice_prompt(character_info, api_key, logger) and the output of
\* the result; an exception on the way ends in sys.exit(1), otherwise main
\* returns.
MainGenerate ==
    /\ mpc = "generate"
    /\ mLlm' = TRUE
    /\ \E raised \in BOOLEAN :
          /\ mRaised' = raised
          /\ mpc' = "exited"
          /\ exit_status' = main_exit_status(raised)
    /\ UNCHANGED <<args, mLogFile, mInvoked>>
    /\ UNCHANGED <<orchVars, collVars, srchVars, httpVars, genVars, extrVars, logVars, youVars, promptVars, wikiVars>>


(***************************************************************************)
(* The subtitle branch: CharacterInfoService._collect_youtube_info,        *)
(* _get_youtube_urls and YouTubeCollector.collect_info, one URL of the     *)
(* loop per step.                                                          *)
(***************************************************************************)
MaxVideoUrls == 12

YOUTUBE_MAX_VIDEOS == 15
YOUTUBE_MAX_TRANSCRIPTS == 10

\* What a URL of the list is: one whose video has a transcript, one whose
\* video has none, one from which no video id can be extracted.
UrlKind(pattern, i) ==
    CASE pattern = "all_found" -> "found"
      [] pattern = "none_found" -> "no_transcript"
      [] pattern = "mixed" -> IF i % 3 = 0 THEN "invalid"
                              ELSE IF i % 3 = 1 THEN "found" ELSE "no_transcript"

UrlLists ==
    {[i \in 1..n |-> UrlKind(pattern, i)] :
        n \in 0..MaxVideoUrls, pattern \in {"all_found", "none_found", "mixed"}}

\* A lookup that asks the engine of the web-search branch.
youtube_url_backend_same_engine(f, google_api_configured) ==
    determine_best_search_engine(f.use_chatgpt, f.use_bing, f.use_duckduckgo, f.use_google)

\* The backend _get_youtube_urls asks for video URLs.
youtube_url_backend(f, google_api_configured) ==
    IF f.use_chatgpt THEN (IF google_api_configured THEN "google" ELSE "bing")
    ELSE IF f.use_bing THEN "bing"
    ELSE IF f.use_duckduckgo THEN "none"
    ELSE IF f.use_google THEN "google"
    ELSE "none"

\* A URL lookup whose failure leaves the list the backend had found so far.
get_youtube_urls_keeping(f, google_api_configured, lookup_raises, found) ==
    IF youtube_url_backend(f, google_api_configured) = "none" THEN <<>> ELSE found

\* CharacterInfoService._get_youtube_urls: found is what search_youtube_videos
\* returns; any exception gives [].
get_youtube_urls(f, google_api_configured, lookup_raises, found) ==
    IF youtube_url_backend(f, google_api_configured) = "none" \/ lookup_raises
    THEN <<>>
    ELSE found

\* youtube_urls[:max_videos]
urls_considered(in) ==
    IF Len(in.urls) < in.max_videos THEN Len(in.urls) ELSE in.max_videos

\* A loop that never ends early.
loop_done_at_list_end(in, idx, transcripts) == idx > urls_considered(in)

\* The URL loop of collect_info is over: the slice is exhausted, or the
\* `break` after YOUTUBE_MAX_TRANSCRIPTS transcripts (83-85).
loop_done(in, idx, transcripts) ==
    idx > urls_considered(in) \/ Len(transcripts) >= YOUTUBE_MAX_TRANSCRIPTS

\* The except clause of YouTubeCollector.collect_info (144-158).
youtube_collector_caught ==
    [found |-> FALSE, error |-> "youtube_subtitle_error", transcripts |-> <<>>,
     total_videos |-> 0, sample_phrases |-> <<>>]

\* What collect_info returns after the loop (88-142).  With an api_key and
\* some text, character_info.get(...) is evaluated: character_info = None
\* raises AttributeError, caught by the except clause.
youtube_result(in, transcripts) ==
    IF in.api_key /\ transcripts # <<>> /\ ~in.character_info
    THEN youtube_collector_caught
    ELSE [found |-> Len(transcripts) > 0,
          error |-> IF Len(transcripts) > 0 THEN None ELSE "no_video_with_subtitles",
          transcripts |-> transcripts,
          total_videos |-> Len(transcripts),
          sample_phrases |-> [k \in 1..Len(transcripts) |-> <<"phrase", transcripts[k]>>],
          character_quotes |-> [k \in 1..Len(transcripts) |-> <<"quote", transcripts[k]>>],
          processed_urls |-> Len(in.urls),
          successful_extractions |-> Len(transcripts),
          speech_pattern_analysis |->
              IF in.api_key /\ transcripts # <<>> THEN "analysis" ELSE "empty"]

NoYoutubeCall ==
    [caller |-> "none", flags |-> NoFlags, urls |-> <<>>, max_videos |-> 0,
     api_key |-> FALSE, character_info |-> FALSE, google_api |-> FALSE,
     lookup_raises |-> FALSE]

YouInit ==
    /\ yState = "idle" /\ yIn = NoYoutubeCall /\ yLookup = "none" /\ yIdx = 1
    /\ yAttempted = <<>> /\ yTranscripts = <<>> /\ yResult = youtube_no_urls

\* Entry of YouTubeCollector.collect_info(youtube_urls, max_videos, ...) up
\* to the loop: max_videos None becomes YOUTUBE_MAX_VIDEOS (45-46), an empty
\* list returns at once (48-55).
collect_info_entry(in) ==
    /\ yIn' = in
    /\ yIdx' = 1 /\ yAttempted' = <<>> /\ yTranscripts' = <<>>
    /\ IF in.urls = <<>>
       THEN yState' = "returned" /\ yResult' = youtube_no_urls
       ELSE yState' = "loop" /\ UNCHANGED yResult

\* _collect_youtube_info(name, flags): _get_youtube_urls, then collect_info
\* with max_videos = YOUTUBE_MAX_VIDEOS, character_info = {"name": name} and
\* the service's api_key.
CollectYoutubeInfo ==
    /\ yState = "idle"
    /\ \E f \in FlagSets : \E conf \in BOOLEAN : \E raises \in BOOLEAN :
       \E found \in UrlLists : \E key \in BOOLEAN :
          /\ yLookup' = youtube_url_backend(f, conf)
          /\ collect_info_entry(
                [caller |-> "branch", flags |-> f,
                 urls |-> get_youtube_urls(f, conf, raises, found),
                 max_videos |-> YOUTUBE_MAX_VIDEOS, api_key |-> key,
                 character_info |-> TRUE, google_api |-> conf,
                 lookup_raises |-> raises])
    /\ UNCHANGED <<orchVars, collVars, srchVars, httpVars, genVars, extrVars, logVars, mainVars, promptVars, wikiVars>>

\* YouTubeCollector.collect_info called directly; max_videos is None (the
\* default) or a number.
YoutubeCollectDirect ==
    /\ yState = "idle"
    /\ \E urls \in UrlLists : \E mv \in {2, YOUTUBE_MAX_VIDEOS} :
       \E key \in BOOLEAN : \E ci \in BOOLEAN :
          /\ yLookup' = "none"
          /\ collect_info_entry(
                [caller |-> "direct", flags |-> NoFlags, urls |-> urls,
                 max_videos |-> mv, api_key |-> key, character_info |-> ci,
                 google_api |-> FALSE, lookup_raises |-> FALSE])
    /\ UNCHANGED <<orchVars, collVars, srchVars, httpVars, genVars, extrVars, logVars, mainVars, promptVars, wikiVars>>

\* One pass of `for i, url in enumerate(youtube_urls[:max_videos])`.
YoutubeUrlPass ==
    /\ yState = "loop"
    /\ LET kind == yIn.urls[yIdx]
           got == IF kind = "found" THEN Append(yTranscripts, yIdx) ELSE yTranscripts
       IN  /\ yAttempted' = IF kind = "invalid" THEN yAttempted ELSE Append(yAttempted, yIdx)
           /\ yTranscripts' = got
           /\ yIdx' = yIdx + 1
           /\ yState' = IF loop_done(yIn, yIdx + 1, got) THEN "finish" ELSE "loop"
    /\ UNCHANGED <<yIn, yLookup, yResult>>
    /\ UNCHANGED <<orchVars, collVars, srchVars, httpVars, genVars, extrVars, logVars, mainVars, promptVars, wikiVars>>

\* The rest of collect_info after the loop, and the return.
YoutubeFinish ==
    /\ yState = "finish"
    /\ yResult' = youtube_result(yIn, yTranscripts)
    /\ yState' = "returned"
    /\ UNCHANGED <<yIn, yLookup, yIdx, yAttempted, yTranscripts>>
    /\ UNCHANGED <<orchVars, collVars, srchVars, httpVars, genVars, extrVars, logVars, mainVars, promptVars, wikiVars>>


(***************************************************************************)
(* Prompt assembly from the aggregate record: the dictionary               *)
(* _collect_wikipedia_info stores, PromptGenerator._organize_information,  *)
(* _build_user_prompt and _generate_fallback_prompt                        *)
(* (generators/prompt_generator.py).  A text is a sequence of lines, a     *)
(* line a sequence of strings; a summary is a sequence of characters.      *)
(***************************************************************************)
MaxSummary == 2
MaxCategories == 2
MaxPromptResults == 2
MaxFallbackCalls == 2

WIKIPEDIA_SUMMARY_LIMIT == 1000
WIKIPEDIA_FALLBACK_LIMIT == 500
WIKIPEDIA_CONTENT_LIMIT == 2000
SAMPLE_PHRASES_MAX == 20
MAX_KEY_INFORMATION == 5
MAX_SAMPLE_PHRASES_DISPLAY == 15
WEB_SPEECH_PATTERNS_LIMIT == 10
PROMPT_FALLBACK_PATTERN_LIMIT == 5
PROMPT_FALLBACK_PHRASE_LIMIT == 5

\* dict.get(key, default)
dict_get(d, key, default) == IF key \in DOMAIN d THEN d[key] ELSE default

\* str(n) for the counts the template prints
str(n) == <<"0", "1", "2", "3", "4", "5", "6", "7", "8", "9">>[n + 1]

\* The wikipedia.page objects a lookup can return.
WikipediaPages ==
    [title : {"X_page"},
     summary : UNION {[1..n -> {"s"}] : n \in 0..MaxSummary},
     categories : UNION {[1..n -> {"cat"}] : n \in 0..MaxCategories}]

\* result_data of WikipediaCollector.collect_info (66-72)
wikipedia_result_data(page) ==
    [title |-> page.title,
     summary |-> SliceTo(page.summary, WIKIPEDIA_SUMMARY_LIMIT),
     content |-> SliceTo(page.summary, WIKIPEDIA_CONTENT_LIMIT),
     url |-> "page_url",
     categories |-> SliceTo(page.categories, SAMPLE_PHRASES_MAX)]

\* CharacterInfoService._collect_wikipedia_info when the collector found the
\* page: collector.collect_info(name) and result.to_dict()
collect_wikipedia_info_found(page) ==
    to_dict(CollectionResult(TRUE, None, <<wikipedia_result_data(page)>>, 1,
                             None, None, None))

\* ... and when the search returned nothing
collect_wikipedia_info_missing(name) ==
    to_dict(create_error_result("WikipediaCollector", "wikipedia_page_not_found", name))

\* The search results a Google branch can store: up to MaxPromptResults
\* entries, each with a title and the speech patterns extracted from the page.
PromptSearchResults ==
    UNION {[1..n -> [title : {"t"}, speech_patterns : {<<>>, <<"p">>, <<"">>}]] :
           n \in 0..MaxPromptResults}

PromptYoutube ==
    [found : BOOLEAN, sample_phrases : {<<>>, <<"ph">>}]

\* The aggregate records collect_character_info can hand to the generator.
PromptInputs ==
    {[name |-> "X", wikipedia_info |-> w,
      google_search_results |-> to_dict(create_success_result("GoogleCollector", g, "X", None)),
      youtube_transcripts |-> y] :
        w \in {collect_wikipedia_info_found(page) : page \in WikipediaPages}
              \cup {collect_wikipedia_info_missing("X")},
        g \in PromptSearchResults,
        y \in PromptYoutube}

\* key_information entries of the Wikipedia block (133-138)
wikipedia_key_information(wiki_info) ==
    (IF dict_get(wiki_info, "title", "") # ""
     THEN <<<<"official_name", wiki_info["title"]>>>> ELSE <<>>)
    \o (IF dict_get(wiki_info, "categories", <<>>) # <<>>
        THEN <<<<"categories">> \o SliceTo(wiki_info["categories"], MAX_KEY_INFORMATION)>>
        ELSE <<>>)

\* the loop over google_info["results"][:max_key_information] (147-153)
RECURSIVE google_key_information(_)
google_key_information(results) ==
    IF results = <<>> THEN <<>>
    ELSE (IF Head(results).title # "" THEN <<<<"related", Head(results).title>>>> ELSE <<>>)
         \o google_key_information(Tail(results))

RECURSIVE web_speech_patterns(_)
web_speech_patterns(results) ==
    IF results = <<>> THEN <<>>
    ELSE Head(results).speech_patterns \o web_speech_patterns(Tail(results))

\* PromptGenerator._organize_information: the flat view (raw_web_content and
\* youtube_speech_analysis, which no property here reads, are left out)
PromptGenerator_organize_information(info) ==
    LET wiki_info == dict_get(info, "wikipedia_info", [found |-> FALSE])
        google_info == dict_get(info, "google_search_results", [found |-> FALSE])
        youtube_info == dict_get(info, "youtube_transcripts", [found |-> FALSE])
        wiki == dict_get(wiki_info, "found", FALSE)
        google == dict_get(google_info, "found", FALSE)
                  /\ dict_get(google_info, "results", <<>>) # <<>>
        youtube == dict_get(youtube_info, "found", FALSE)
        top == SliceTo(google_info.results, MAX_KEY_INFORMATION)
        base ==
            [name |-> dict_get(info, "name", "unknown_ja"),
             wikipedia_found |-> wiki,
             wikipedia_summary |-> IF wiki THEN dict_get(wiki_info, "summary", <<>>) ELSE <<>>,
             google_results_count |-> IF google THEN Len(google_info.results) ELSE 0,
             key_information |->
                (IF wiki THEN wikipedia_key_information(wiki_info) ELSE <<>>)
                \o (IF google THEN google_key_information(top) ELSE <<>>),
             youtube_found |-> youtube,
             sample_phrases |->
                IF youtube THEN dict_get(youtube_info, "sample_phrases", <<>>) ELSE <<>>]
    IN  IF google
        THEN [k \in DOMAIN base \cup {"web_speech_patterns"} |->
                IF k = "web_speech_patterns"
                THEN SliceTo(web_speech_patterns(top), WEB_SPEECH_PATTERNS_LIMIT)
                ELSE base[k]]
        ELSE base

\* A variant of the above whose pattern list is the first result's own list,
\* so that the extend calls grow the aggregate record.
character_info_after_organize_aliasing(info) ==
    IF info.google_search_results.results = <<>>
    THEN info
    ELSE [info EXCEPT
            !.google_search_results.results[1].speech_patterns =
                web_speech_patterns(info.google_search_results.results)
                \o <<"p">>]

\* The aggregate record as a call of _organize_information leaves it: every
\* assignment, append and extend of 117-173 targets organized or a list
\* created inside the call, the argument is only read.
character_info_after_organize(info) == info

\* "- pattern" lines for the patterns with pattern.strip()
bullet_lines(items, mark) ==
    [i \in 1..Len(SelectSeq(items, LAMBDA p : p # "")) |->
        <<mark, SelectSeq(items, LAMBDA p : p # "")[i]>>]

\* PromptGenerator._build_user_prompt: the header and the sections built
\* from the Wikipedia summary, the key facts, the Web patterns and the
\* YouTube samples (227-258, 285-293)
PromptGenerator_build_user_prompt(organized_info) ==
    <<<<"request">>, <<"target_character", organized_info.name>>, <<"analysis_target">>>>
    \o (IF organized_info.wikipedia_found
        THEN <<<<"basic_information_wikipedia">>,
               SliceTo(organized_info.wikipedia_summary, WIKIPEDIA_SUMMARY_LIMIT) \o <<"...">>>>
        ELSE <<>>)
    \o (IF organized_info.key_information # <<>>
        THEN <<<<"additional_information">>>>
             \o [i \in 1..Len(SliceTo(organized_info.key_information, MAX_KEY_INFORMATION)) |->
                    <<"-">> \o organized_info.key_information[i]]
        ELSE <<>>)
    \o (IF dict_get(organized_info, "web_speech_patterns", <<>>) # <<>>
        THEN <<<<"web_speech_patterns">>>>
             \o bullet_lines(organized_info.web_speech_patterns, "-")
        ELSE <<>>)
    \o (IF organized_info.youtube_found /\ organized_info.sample_phrases # <<>>
        THEN <<<<"youtube_samples">>>>
             \o bullet_lines(SliceTo(organized_info.sample_phrases, MAX_SAMPLE_PHRASES_DISPLAY),
                             "quote")
        ELSE <<>>)
    \o <<<<"analysis_request">>>>

\* PromptGenerator._generate_fallback_prompt: "\n".join(fallback_parts)
PromptGenerator_generate_fallback_prompt(info) ==
    LET name == dict_get(info, "name", "unknown_character_ja")
        organized_info == PromptGenerator_organize_information(info)
        info_sources ==
            (IF organized_info.wikipedia_found THEN <<"Wikipedia">> ELSE <<>>)
            \o (IF organized_info.google_results_count > 0
                THEN <<"Google", str(organized_info.google_results_count)>> ELSE <<>>)
            \o (IF organized_info.youtube_found THEN <<"YouTube">> ELSE <<>>)
    IN  <<<<"role_play_header">>, <<"your_role", name>>>>
        \o (IF organized_info.wikipedia_found
            THEN <<<<"## basic_information">>,
                   SliceTo(organized_info.wikipedia_summary, WIKIPEDIA_FALLBACK_LIMIT)
                   \o <<"...">>>>
            ELSE <<>>)
        \o (IF dict_get(organized_info, "web_speech_patterns", <<>>) # <<>>
            THEN <<<<"## web_speech_patterns">>>>
                 \o bullet_lines(SliceTo(organized_info.web_speech_patterns,
                                         PROMPT_FALLBACK_PATTERN_LIMIT), "-")
            ELSE <<>>)
        \o (IF organized_info.youtube_found /\ organized_info.sample_phrases # <<>>
            THEN <<<<"## youtube_samples">>>>
                 \o bullet_lines(SliceTo(organized_info.sample_phrases,
                                         PROMPT_FALLBACK_PHRASE_LIMIT), "quote")
            ELSE <<>>)
        \o <<<<"guidelines", name>>, <<"speech_instructions", name>>, <<"notes", name>>>>
        \o (IF info_sources # <<>> THEN <<<<"sources">> \o info_sources>> ELSE <<>>)
        \o <<<<"api_unavailable">>>>

PromptInit ==
    /\ pInfo = [name |-> "X", wikipedia_info |-> collect_wikipedia_info_missing("X"),
                google_search_results |->
                    to_dict(create_success_result("GoogleCollector", <<>>, "X", None)),
                youtube_transcripts |-> [found |-> FALSE, sample_phrases |-> <<>>]]
    /\ pTexts = <<>>
    /\ pUser = <<>>
    /\ pView = [name |-> "none"]

\* user_prompt = self._build_user_prompt(self._organize_information(character_info))
\* (generate_voice_prompt 36-40)
PromptBuildUser ==
    /\ pUser = <<>>
    /\ pView' = PromptGenerator_organize_information(pInfo)
    /\ pUser' = PromptGenerator_build_user_prompt(pView')
    /\ pInfo' = character_info_after_organize(pInfo)
    /\ UNCHANGED pTexts
    /\ UNCHANGED <<orchVars, collVars, srchVars, httpVars, genVars, extrVars, logVars, mainVars, youVars, wikiVars>>

\* one call self._generate_fallback_prompt(character_info)
PromptFallback ==
    /\ Len(pTexts) < MaxFallbackCalls
    /\ pView' = PromptGenerator_organize_information(pInfo)
    /\ pTexts' = Append(pTexts, PromptGenerator_generate_fallback_prompt(pInfo))
    /\ pInfo' = character_info_after_organize(pInfo)
    /\ UNCHANGED pUser
    /\ UNCHANGED <<orchVars, collVars, srchVars, httpVars, genVars, extrVars, logVars, mainVars, youVars, wikiVars>>


(***************************************************************************)
(* WikipediaCollector._select_best_character_option                        *)
(* (collectors/wikipedia_collector.py).  A title is the set of its words;  *)
(* "a in b" on strings is inclusion of the lower-cased words.              *)
(***************************************************************************)
MaxHeadOptions == 2

SCORE_INDICATOR == 2
SCORE_EXCLUDE == 3
SCORE_ORIGINAL_NAME == 5
INITIAL_BEST_SCORE == -1

\* str.lower() on a word and on a title
lower_word(w) ==
    CASE w = "X" -> "x"
      [] w = "Anime" -> "anime"
      [] OTHER -> w

lower(title) == {lower_word(w) : w \in title}

\* a.lower() in b_lower
contained(a, b_lower) == lower(a) \subseteq b_lower

\* character_indicators (157-161) and exclude_indicators (164-167)
character_indicators(original_name) ==
    <<original_name, {"character_ja"}, {"character"}, {"anime_ja"}, {"anime"},
      {"manga_ja"}, {"manga"}, {"manga_kanji"}, {"game_ja"}, {"game"},
      {"fiction_ja"}, {"fiction"}, {"work_ja"}, {"cast_ja"}>>

exclude_indicators ==
    <<{"bible_ja"}, {"religion_ja"}, {"religion"}, {"incident_ja"}, {"crime_ja"},
      {"crime"}, {"politics_ja"}, {"politics"}, {"enterprise_ja"}, {"company"},
      {"company_ja"}, {"organization_ja"}, {"group_ja"}, {"school_ja"}, {"school"},
      {"university_ja"}>>

\* the number of entries of a list of indicators found in option_lower
count_in(indicators, option_lower) ==
    Cardinality({i \in 1..Len(indicators) : contained(indicators[i], option_lower)})

\* score of one option (173-187)
option_score(original_name, option) ==
    LET option_lower == lower(option)
    IN  SCORE_INDICATOR * count_in(character_indicators(original_name), option_lower)
        - SCORE_EXCLUDE * count_in(exclude_indicators, option_lower)
        + (IF contained(original_name, option_lower) THEN SCORE_ORIGINAL_NAME ELSE 0)

\* the loop over options[:SAMPLE_PHRASES_MAX] (172-191) from index i on
RECURSIVE select_loop(_, _, _, _, _)
select_loop(original_name, considered, i, best_score, best_option) ==
    IF i > Len(considered) THEN best_option
    ELSE LET score == option_score(original_name, considered[i])
         IN  IF score > best_score
             THEN select_loop(original_name, considered, i + 1, score, considered[i])
             ELSE select_loop(original_name, considered, i + 1, best_score, best_option)

\* A selection whose loop accepts an option as good as the best so far.
select_best_character_option_latest(original_name, options) ==
    IF options = <<>> THEN original_name
    ELSE LET considered == SliceTo(options, SAMPLE_PHRASES_MAX)
             best == Max(INITIAL_BEST_SCORE + 1,
                         CHOOSE m \in {option_score(original_name, considered[i]) :
                                           i \in 1..Len(considered)} :
                            \A i \in 1..Len(considered) :
                               option_score(original_name, considered[i]) <= m)
             hits == {i \in 1..Len(considered) :
                         option_score(original_name, considered[i]) = best}
         IN  IF hits = {} THEN options[1]
             ELSE considered[CHOOSE i \in hits : \A j \in hits : j <= i]

\* WikipediaCollector._select_best_character_option
select_best_character_option(original_name, options) ==
    IF options = <<>> THEN original_name
    ELSE select_loop(original_name, SliceTo(options, SAMPLE_PHRASES_MAX), 1,
                     INITIAL_BEST_SCORE, options[1])

\* Titles a search or a disambiguation page can list for the name X.
CandidateTitles ==
    {{"other"}, {"X"}, {"X", "game"}, {"X", "character"}, {"Anime", "manga", "game"},
     {"crime"}, {"religion", "crime"}, {"X", "company"}}

FillerTitle == {"other"}

\* Candidate lists: up to MaxHeadOptions titles, then no filler titles or
\* enough of them to reach the end of the slice options[:SAMPLE_PHRASES_MAX],
\* then at most one more title.
OptionLists ==
    {h \o [i \in 1..p |-> FillerTitle] \o t :
        h \in UNION {[1..n -> CandidateTitles] : n \in 0..MaxHeadOptions},
        p \in {0, SAMPLE_PHRASES_MAX - 1, SAMPLE_PHRASES_MAX},
        t \in {<<>>} \cup {<<c>> : c \in CandidateTitles}}

WikiInit ==
    /\ wName = {"X"}
    /\ wOptions = <<>>
    /\ wSite = "none"
    /\ wSelected = {}

\* page_title = self._select_best_character_option(name, search_results) (61),
\* reached only with a non-empty search result (53-58)
SelectFromSearch ==
    /\ wSite = "none"
    /\ wOptions # <<>>
    /\ wSite' = "search"
    /\ wSelected' = select_best_character_option(wName, wOptions)
    /\ UNCHANGED <<wName, wOptions>>
    /\ UNCHANGED <<orchVars, collVars, srchVars, httpVars, genVars, extrVars, logVars, mainVars, youVars, promptVars>>

\* best_option = self._select_best_character_option(name, e.options) (89)
SelectFromDisambiguation ==
    /\ wSite = "none"
    /\ wSite' = "disambiguation"
    /\ wSelected' = select_best_character_option(wName, wOptions)
    /\ UNCHANGED <<wName, wOptions>>
    /\ UNCHANGED <<orchVars, collVars, srchVars, httpVars, genVars, extrVars, logVars, mainVars, youVars, promptVars>>

ExtInit == HttpInit /\ GenInit /\ ExtrInit /\ LogInit /\ MainInit /\ YouInit /\ PromptInit /\ WikiInit

(***************************************************************************)
(* Specifications.                                                         *)
(***************************************************************************)
\* The part of the state a specification does not use stays at these values.
OrchIdle ==
    /\ use_youtube = FALSE
    /\ dur = [b \in Branches |-> 0]
    /\ pc = "idle"
    /\ clock = 0
    /\ alarm = "unset"
    /\ character_info = [name |-> "X"]
    /\ waitStart = [b \in Branches |-> 0]
    /\ verdict = [b \in Branches |-> "none"]
    /\ use_realtime_display = FALSE
    /\ console_status = [b \in Branches |-> "queued"]
    /\ display_loop = "none"
    /\ sys_stdout = "original"
    /\ plain_info = [name |-> "X"]

\* collect_character_info, from call to return or raise.
Init == OrchInit /\ CollInit /\ SrchInit /\ ExtInit

Next ==
    \/ StartDisplay
    \/ SetAlarm
    \/ Submit
    \/ CollectWikipedia
    \/ CollectWebSearch
    \/ CollectYoutube
    \/ SkipYoutube
    \/ ExecutorExit
    \/ CancelAlarm

Spec == Init /\ [][Next]_vars

\* One collection: a collector's collect_info, or the web-search branch.
InitCollect == OrchIdle /\ CollInit /\ SrchInit /\ ExtInit

NextCollect == CollectDirect \/ CollectWebSearchInfo

SpecCollect == InitCollect /\ [][NextCollect]_vars

\* One web-search collector working through its search patterns.
InitSearch == OrchIdle /\ CollInit /\ SrchInit /\ ExtInit

NextSearch == StartSearch \/ BingSearchPass \/ GoogleSearchPass \/ DdgMethodPass

SpecSearch == InitSearch /\ [][NextSearch]_vars

\* One safe_http_get call.
InitHttp == OrchIdle /\ CollInit /\ SrchInit /\ ExtInit

NextHttp == SafeHttpGetCall \/ HttpAttempt

SpecHttp == InitHttp /\ [][NextHttp]_vars

\* One generate_voice_prompt call.
InitGen == OrchIdle /\ CollInit /\ SrchInit /\ ExtInit

NextGen == GenerateMain \/ GenerateIntroduction \/ GeneratePolicySafeAndReturn

SpecGen == InitGen /\ [][NextGen]_vars

\* One speech-pattern extraction call.
InitExtract == OrchIdle /\ CollInit /\ SrchInit /\ ExtInit

NextExtract == ExtractWithLLM \/ ExtractWithRegex

SpecExtract == InitExtract /\ [][NextExtract]_vars

\* The branch threads of one run and the logger they share.
InitLog ==
    /\ OrchIdle /\ CollInit /\ SrchInit /\ HttpInit /\ GenInit /\ ExtrInit /\ MainInit /\ YouInit /\ PromptInit /\ WikiInit
    /\ LogStart

NextLog == LogCall \/ LogOpen \/ LogWrite \/ BranchCollect

SpecLog == InitLog /\ [][NextLog]_vars

\* One run of main().
InitMain == OrchIdle /\ CollInit /\ SrchInit /\ ExtInit

NextMain ==
    \/ MainParse \/ MainFlagCheck \/ MainStartLog \/ MainKeyCheck
    \/ MainCollect \/ MainGenerate

SpecMain == InitMain /\ [][NextMain]_vars

\* One run of the subtitle branch, or one direct call of the collector.
InitYoutube == OrchIdle /\ CollInit /\ SrchInit /\ ExtInit

NextYoutube ==
    \/ CollectYoutubeInfo \/ YoutubeCollectDirect \/ YoutubeUrlPass \/ YoutubeFinish

SpecYoutube == InitYoutube /\ [][NextYoutube]_vars

\* The generator applied to one aggregate record: the user prompt is built
\* once, the fallback template up to MaxFallbackCalls times.
InitPrompt ==
    /\ OrchIdle /\ CollInit /\ SrchInit /\ HttpInit /\ GenInit /\ ExtrInit /\ LogInit /\ MainInit /\ YouInit /\ WikiInit
    /\ pInfo \in PromptInputs
    /\ pTexts = <<>>
    /\ pUser = <<>>
    /\ pView = [name |-> "none"]

NextPrompt == PromptBuildUser \/ PromptFallback

SpecPrompt == InitPrompt /\ [][NextPrompt]_vars

\* One selection among the candidates of a search or a disambiguation page.
InitSelect ==
    /\ OrchIdle /\ CollInit /\ SrchInit /\ HttpInit /\ GenInit /\ ExtrInit /\ LogInit /\ MainInit /\ YouInit /\ PromptInit
    /\ wName = {"X"}
    /\ wOptions \in OptionLists
    /\ wSite = "none"
    /\ wSelected = {}

NextSelect == SelectFromSearch \/ SelectFromDisambiguation

SpecSelect == InitSelect /\ [][NextSelect]_vars

(***************************************************************************)
(* Properties of collect_character_info (specification Spec).              *)
(***************************************************************************)
AggregateKeys == {"wikipedia_info", "google_search_results", "youtube_transcripts"}

\* The main thread has left the try block of branch b.
Collected(b) == verdict[b] # "none"

\* C1: when collect_character_info returns, the aggregate has the keys
\* wikipedia_info, google_search_results and youtube_transcripts, and each of
\* the three values has a `found` field, whatever the branches did and
\* whether use_youtube is set or not.
C1_AggregateComplete ==
    pc = "returned" =>
        /\ AggregateKeys \subseteq DOMAIN character_info
        /\ \A k \in AggregateKeys : "found" \in DOMAIN character_info[k]

\* A return in which one branch timed out, one future raised and one
\* returned its collector's result.
C1_Witness ==
    /\ pc = "returned"
    /\ use_youtube
    /\ verdict["web_search"] = "timeout"
    /\ verdict["wikipedia"] = "in_time"
    /\ character_info["wikipedia_info"].error = "escaped_exception"
    /\ verdict["youtube"] = "in_time"
    /\ character_info["youtube_transcripts"] = youtube_collected

\* C2: no exception propagates out of collect_character_info, whatever the
\* branches do and at whatever point of the run the 180-second alarm fires.
C2_NeverRaises == pc # "raised"

\* C3: when the web-search future is not done at the end of its 90-second
\* wait, google_search_results is exactly the 90-second timeout dictionary,
\* and wikipedia_info and youtube_transcripts hold what they would hold had
\* the web-search branch finished in time.  wikipedia_info is stored before
\* the web-search wait starts; youtube_transcripts is decided by how the
\* subtitle wait ends, so it must end the same way from every second at which
\* a web-search wait that is not a timeout can end.
C3_WebTimeoutFrame ==
    (Collected("youtube") /\ verdict["web_search"] = "timeout") =>
        /\ character_info["google_search_results"] =
              [found |-> FALSE, error |-> "timeout_90s", results |-> <<>>,
               total_results |-> 0]
        /\ use_youtube =>
              \A d \in Durations :
                  d <= waitStart["web_search"] + TimeoutWebSearch =>
                      wait_verdict(wait_end(waitStart["web_search"], d, TimeoutWebSearch),
                                   dur["youtube"], TimeoutYoutube,
                                   alarm # "unsupported")
                          = verdict["youtube"]

\* C4: a branch whose function has not ended within its own limit (30, 90,
\* 120 seconds) counted from its launch ends with the synthetic timed-out
\* dictionary in its slot, whatever the durations of the other branches.
C4_OwnTimeoutFromLaunch ==
    \A b \in Launched :
        (Collected(b) /\ dur[b] > Timeout(b)) =>
            character_info[SlotKey(b)] = on_timeout(b)

CollectionResultKeys == {"found", "error", "results", "total_results"}
SubtitleKeys == {"transcripts", "total_videos", "sample_phrases", "character_quotes",
                 "speech_pattern_analysis"}

\* C5: every value stored under wikipedia_info or google_search_results has
\* the keys found, error, results, total_results, and every value stored
\* under youtube_transcripts has the keys transcripts, total_videos,
\* sample_phrases, character_quotes, speech_pattern_analysis; this includes
\* the values of a raising collector, a raising future, a timeout and the
\* disabled subtitle branch.
C5_SlotShapes ==
    /\ \A k \in {"wikipedia_info", "google_search_results"} :
          k \in DOMAIN character_info =>
              CollectionResultKeys \subseteq DOMAIN character_info[k]
    /\ "youtube_transcripts" \in DOMAIN character_info =>
          SubtitleKeys \subseteq DOMAIN character_info["youtube_transcripts"]

(***************************************************************************)
(* Properties of one collection (specification SpecCollect).               *)
(***************************************************************************)
AnyFlag(f) == f.use_chatgpt \/ f.use_bing \/ f.use_duckduckgo \/ f.use_google

\* C6: with at least one flag set, determine_best_search_engine returns the
\* backend of the first set flag in the order ChatGPT, Bing, DuckDuckGo,
\* Google; Google is returned only when use_google is the only flag set.
C6_EnginePrecedence ==
    (called = "branch" /\ AnyFlag(flags)) =>
        /\ flags.use_chatgpt => engine = "chatgpt"
        /\ (~flags.use_chatgpt /\ flags.use_bing) => engine = "bing"
        /\ (~flags.use_chatgpt /\ ~flags.use_bing /\ flags.use_duckduckgo)
              => engine = "duckduckgo"
        /\ (~flags.use_chatgpt /\ ~flags.use_bing /\ ~flags.use_duckduckgo)
              => engine = "google"
        /\ engine = "google" =>
              (flags.use_google /\ ~flags.use_chatgpt /\ ~flags.use_bing
                 /\ ~flags.use_duckduckgo)

\* Bing, DuckDuckGo and Google requested together: Bing is chosen.
C6_Witness ==
    /\ called = "branch"
    /\ flags = [use_chatgpt |-> FALSE, use_bing |-> TRUE, use_duckduckgo |-> TRUE,
                use_google |-> TRUE]
    /\ engine = "bing"
    /\ collector = "BingCollector"

\* C7: every CollectionResult returned by a collector's collect_info has
\* total_results = len(results) and found = (total_results > 0), on success,
\* disambiguation and error paths.
C7_CountsAgree ==
    collector # "none" =>
        /\ result.total_results = Len(result.results)
        /\ result.found = (result.total_results > 0)

\* A web collector for which every query failed: the success helper is
\* given the empty list.
C7_Witness ==
    /\ collector = "BingCollector"
    /\ ~backend.fault
    /\ \A p \in Patterns : backend.search[p] = "http_429"
    /\ result.error = None
    /\ result.total_results = 0

\* C8: every CollectionResult returned by a collector has source equal to
\* the lower-cased class name of that collector without "Collector".
C8_SourceIsClassName ==
    collector # "none" => result.source = source_name(collector)

\* The <<query, url>> pairs the backend delivered to the collector: the
\* query's search succeeded and, where the item is the fetched page, the
\* page fetch succeeded.
Retrieved(cls, env) ==
    CASE cls = "WikipediaCollector" ->
            IF env.wiki[1] = "hits"
               /\ (env.wiki[2] = "ok" \/ (env.wiki[2] = "disambiguation" /\ env.wiki[3] = "ok"))
            THEN {<<1, 1>>} ELSE {}
      [] cls = "BingCollector" ->
            {pu \in Patterns \X Urls : env.search[pu[1]] = "ok" /\ env.page[pu[1]][pu[2]]}
      [] cls = "GoogleCollector" ->
            {pu \in Patterns \X Urls :
                env.search[pu[1]] = "ok" /\ (env.use_api \/ env.page[pu[1]][pu[2]])}
      [] cls = "DuckDuckGoCollector" ->
            {pu \in Patterns \X Urls : \E m \in 1..Len(DdgMethods) : env.ddg[pu[1]][m] = "ok"}
      [] cls = "ChatGPTCollector" ->
            {pu \in Patterns \X {1} : env.api_key /\ env.search[pu[1]] = "ok"}

\* C9: under every pattern of per-query and per-URL failures collect_info
\* returns a CollectionResult that keeps the items of the queries and URLs
\* that did not fail, and the result has found = false together with a
\* non-null error exactly when nothing was retrieved.
C9_PartialFailure ==
    (collector # "none" /\ ~backend.fault) =>
        /\ \A pu \in Retrieved(collector, backend) :
              \E i \in 1..Len(result.results) :
                  result.results[i].query = pu[1] /\ result.results[i].url = pu[2]
        /\ (result.found = FALSE /\ result.error # None)
              <=> (Retrieved(collector, backend) = {})

(***************************************************************************)
(* Properties of the per-query loops (specification SpecSearch).           *)
(***************************************************************************)
Growing(waits) == \A i \in 1..(Len(waits) - 1) : waits[i] < waits[i + 1]

Ceiling(e) ==
    CASE e = "bing" -> MAX_RETRIES
      [] e = "google" -> GOOGLE_FALLBACK_MAX_RETRIES
      [] e = "duckduckgo" -> Len(DdgMethods)

\* C10: a query whose search request was answered with HTTP 429 is sent
\* again after a wait, the waits of one query grow from attempt to attempt,
\* a query is sent at most the collector's ceiling of times (3 for Bing, 2
\* for the Google scrape path), and after that the collector goes on with
\* the next query.
C10_RetryOn429 ==
    \A p \in Patterns :
        (sState[p] # "pending" /\ sFirst[p] = "http_429") =>
            /\ sAttempts[p] >= 2
            /\ Len(sSleeps[p]) = sAttempts[p] - 1
            /\ Growing(sSleeps[p])
            /\ sAttempts[p] <= Ceiling(sEngine)

(***************************************************************************)
(* Properties of safe_http_get (specification SpecHttp).                   *)
(***************************************************************************)
\* C11: when the first answer is one of the statuses 404, 403, 406, 410,
\* 503, safe_http_get makes exactly one GET attempt, sleeps no backoff and
\* returns null, for every max_retries >= 0.
C11_TerminalStatusOneAttempt ==
    (hState = "done" /\ Len(hOutcomes) >= 1
       /\ hOutcomes[1].kind = "http_error"
       /\ hOutcomes[1].status \in HTTP_SKIP_RETRY_STATUS_CODES) =>
        /\ Len(hOutcomes) = 1
        /\ hSleeps = <<>>
        /\ hResult = "null"

\* The outcomes C12 speaks of: success, timeout, connection error, HTTP error
\* with a status outside the terminal list, other request error.
RetriedOutcome(o) ==
    o.kind = "http_error" => o.status \notin HTTP_SKIP_RETRY_STATUS_CODES

\* C12: for every sequence of such outcomes, get makes at most
\* max_retries + 1 attempts, no attempt follows a success, the wait before
\* retry number k is k times the constant of the failure it follows (2 HTTP
\* and other errors, 3 timeouts, 4 connection errors), a retry follows every
\* failure but the last allowed one, and a run that ends in a failure makes
\* safe_http_get return null (a success makes it return the response).
C12_BoundedRetriesWithBackoff ==
    (\A i \in 1..Len(hOutcomes) : RetriedOutcome(hOutcomes[i])) =>
        /\ Len(hOutcomes) <= hMaxRetries + 1
        /\ \A i \in 1..(Len(hOutcomes) - 1) : hOutcomes[i].kind # "ok"
        /\ \A k \in 1..Len(hSleeps) :
              hSleeps[k] = k * (CASE hOutcomes[k].kind = "timeout" -> 3
                                  [] hOutcomes[k].kind = "connection_error" -> 4
                                  [] OTHER -> 2)
        /\ hState = "running" => Len(hSleeps) = Len(hOutcomes)
        /\ (hState = "done" /\ hOutcomes # <<>>) =>
              /\ Len(hSleeps) = Len(hOutcomes) - 1
              /\ IF hOutcomes[Len(hOutcomes)].kind = "ok"
                 THEN hResult = "response"
                 ELSE hResult = "null" /\ Len(hOutcomes) = hMaxRetries + 1

\* Two retries with different waits, then the last allowed attempt fails.
C12_Witness ==
    /\ hState = "done"
    /\ hMaxRetries = 2
    /\ Len(hOutcomes) = 3
    /\ hOutcomes[1].kind = "timeout"
    /\ hOutcomes[2].kind = "connection_error"
    /\ hOutcomes[3] = [kind |-> "http_error", status |-> 500]
    /\ hSleeps = <<3, 8>>
    /\ hResult = "null"

(***************************************************************************)
(* Properties of generate_voice_prompt (specification SpecGen).            *)
(***************************************************************************)
Marked(api_interaction) ==
    "fallback_used" \in DOMAIN api_interaction /\ api_interaction.fallback_used

\* C13: for each combination of success and failure of the three LLM calls,
\* generate_voice_prompt returns a record with generated_prompt,
\* character_introduction, policy_safe_prompt and api_interaction, and every
\* stage whose LLM call failed carries the template text built without the
\* LLM and is marked fallback_used.
C13_FallbackPerStage ==
    gState = "returned" =>
        /\ {"generated_prompt", "character_introduction", "policy_safe_prompt",
            "api_interaction"} \subseteq DOMAIN gOutput
        /\ ~gCalls[1] =>
              /\ gOutput.generated_prompt = generate_fallback_prompt(gInfo)
              /\ Marked(gOutput.api_interaction)
        /\ ~gCalls[2] =>
              /\ gOutput.character_introduction.introduction_text.by = "template"
              /\ Marked(gOutput.character_introduction.api_interaction)
        /\ ~gCalls[3] =>
              /\ gOutput.policy_safe_prompt.safe_prompt.by = "template"
              /\ Marked(gOutput.policy_safe_prompt.api_interaction)

\* All three LLM calls failed.
C13_Witness ==
    /\ gState = "returned"
    /\ gCalls = <<FALSE, FALSE, FALSE>>
    /\ gOutput.generated_prompt.by = "template"
    /\ gOutput.generated_prompt.info_sources = <<"Wikipedia", "YouTube">>

(***************************************************************************)
(* Properties of speech-pattern extraction (specification SpecExtract).    *)
(***************************************************************************)
\* C14: every speech-pattern extraction function returns, without raising,
\* a list of at most 10 entries; when the LLM call fails the list is empty,
\* and when the parsing fails it is no longer than the entries found before
\* the failure.
C14_ExtractionCapped ==
    xOp # "none" =>
        /\ ~xOutput.raised
        /\ Len(xOutput.value) <= 10
        /\ (xOp \in LlmOps /\ xInput.llm_raises) => xOutput.value = <<>>
        /\ (xOp \in RegexOps /\ xInput.name_none /\ xInput.quotes > 0) =>
              Len(xOutput.value) <= xInput.pronouns + xInput.endings + xInput.habits

\* An LLM answer of more than 10 labelled lines: the first 10 are returned.
C14_Witness ==
    /\ xOp = "OpenAIClient.extract_speech_patterns"
    /\ ~xInput.text_empty /\ ~xInput.llm_raises
    /\ xInput.lines = 12 /\ xInput.style = "all"
    /\ Len(xOutput.value) = 10
    /\ xOutput.value[10].no = 10

(***************************************************************************)
(* ChatGPT backend without a credential (specification SpecCollect).       *)
(***************************************************************************)
\* C15: when the ChatGPT backend is used without an API key, directly or
\* through the factory in the web-search branch, no LLM query is issued and
\* the result has found = False, total_results = 0 and an error text holding
\* "API Key".
C15_NoKeyFailsFast ==
    /\ (called = "direct" /\ collector = "ChatGPTCollector" /\ ~backend.api_key) =>
          /\ llmQueries = 0
          /\ ~result.found /\ result.total_results = 0
          /\ result.error \in ErrorsNamingApiKey
    /\ (called = "branch" /\ engine = "chatgpt" /\ ~backend.api_key) =>
          /\ llmQueries = 0
          /\ ~webInfo.found /\ webInfo.total_results = 0
          /\ webInfo.error \in ErrorsNamingApiKey

\* The branch chose ChatGPT by default (no flag set) and there is no key.
C15_Witness ==
    /\ called = "branch" /\ engine = "chatgpt" /\ flags = NoFlags
    /\ ~backend.api_key
    /\ collector = "none"
    /\ webInfo.error = "web_search_error:chatgpt_search_needs_API_Key"
    /\ llmQueries = 0

(***************************************************************************)
(* Timed-out branches and the return (specification Spec).                 *)
(***************************************************************************)
\* C16: once a branch has timed out, collect_character_info returns its
\* aggregate without waiting for that branch's blocking call to finish (it
\* returns before the second at which the branch function ends), and the
\* slot of the timed-out branch holds the timeout dictionary at the return.
C16_ReturnsWithoutWaiting ==
    pc = "returned" =>
        \A b \in Launched :
            verdict[b] = "timeout" =>
                /\ clock < dur[b]
                /\ character_info[SlotKey(b)] = on_timeout(b)

(***************************************************************************)
(* The 180-second alarm (specification Spec).                              *)
(***************************************************************************)
\* C17: where SIGALRM is supported, collect_character_info never keeps
\* running beyond the moment at which the alarm fired: once the alarm has
\* fired, no wait for a branch or for the worker pool ends later than second
\* AlarmSeconds.
C17_AlarmBoundsRun ==
    alarm = "fired" => clock <= AlarmSeconds

(***************************************************************************)
(* Shared state of the branch threads (specification SpecLog).             *)
(***************************************************************************)
\* C18: the branches share no mutable state that needs a lock: the logger's
\* in-memory log is written by at most one thread, and no interleaving
\* corrupts a write: while a thread is writing the document of the log into
\* a file, the file holds exactly what that thread has written so far.
C18_NoSharedWrites ==
    /\ Cardinality(lWriters) <= 1
    /\ \A t \in lThreads :
          lSave[t].phase \in {"head", "steps", "performance"} =>
              Len(lFiles[lSave[t].file]) = lSave[t].pos

(***************************************************************************)
(* Web search switched off (specification SpecCollect).                    *)
(***************************************************************************)
\* C19: when web search is disabled (use_google false and no alternate
\* backend flag), the web-search branch invokes no web-search or
\* knowledge-base collector, issues no LLM query, and google_search_results
\* holds a record with found = False.
C19_DisabledInvokesNothing ==
    (called = "branch" /\ flags = NoFlags) =>
        /\ collector = "none"
        /\ llmQueries = 0
        /\ ~webInfo.found

(***************************************************************************)
(* Conflicting backend flags (specification SpecMain).                     *)
(***************************************************************************)
\* C20: if more than one of --use-duckduckgo, --use-bing and
\* --use-chatgpt-search is set, main exits with status 1 before any log file
\* is created, any collector is invoked or any LLM call is made.
C20_ConflictExitsFirst ==
    (mpc # "start" /\ sum(<<args.use_duckduckgo, args.use_bing, args.use_chatgpt_search>>) > 1) =>
        /\ mpc \in {"flag_check", "exited"}
        /\ mpc = "exited" => exit_status = 1
        /\ ~mLogFile
        /\ mInvoked = {}
        /\ ~mLlm

\* --use-bing --use-chatgpt-search with an API key: exited with status 1.
C20_Witness ==
    /\ mpc = "exited" /\ exit_status = 1
    /\ args.use_bing /\ args.use_chatgpt_search /\ ~args.use_duckduckgo
    /\ args.api_key
    /\ ~mLogFile /\ mInvoked = {} /\ ~mLlm

C22_UrlValidation ==
    hState # "idle" =>
        LET u == hUrl.url
            has_scheme ==
                \/ Len(u) >= 7 /\ SubSeq(u, 1, 7) = <<"h", "t", "t", "p", ":", "/", "/">>
                \/ Len(u) >= 8 /\ SubSeq(u, 1, 8) = <<"h", "t", "t", "p", "s", ":", "/", "/">>
            double_slash == Len(u) >= 2 /\ u[1] = "/" /\ u[2] = "/"
            bare_path == Len(u) >= 1 /\ u[1] = "/" /\ ~double_slash
        IN  /\ (u = <<>> \/ bare_path) =>
                  hState = "done" /\ hResult = "null" /\ hOutcomes = <<>>
            /\ double_slash =>
                  hUrl.requested = <<"h", "t", "t", "p", "s", ":", "/", "/">> \o SubSeq(u, 3, Len(u))
            /\ has_scheme => hUrl.requested = u
            /\ (u # <<>> /\ ~has_scheme /\ ~double_slash /\ ~bare_path) =>
                  hUrl.requested = <<"h", "t", "t", "p", "s", ":", "/", "/">> \o u
            /\ ~(u # <<>> /\ ~bare_path /\ hState = "done" /\ hOutcomes = <<>>)

\* The bare path "/a" was rejected without a request.
C22_Witness ==
    /\ hState = "done" /\ hUrl.url = <<"/", "a">>
    /\ hUrl.requested = <<>> /\ hResult = "null" /\ hOutcomes = <<>>
(***************************************************************************)
(* The subtitle collector and its branch (specification SpecYoutube).      *)
(***************************************************************************)
\* A returned call that was given n valid video URLs, 0 < n < max_videos.
ShortfallCall ==
    /\ yState = "returned"
    /\ yIn.urls # <<>>
    /\ Len(yIn.urls) < yIn.max_videos
    /\ \A i \in 1..Len(yIn.urls) : yIn.urls[i] # "invalid"

\* C23 as stated: given n video URLs with n < max_videos, the collector
\* attempts exactly those n URLs, each once and in list order, and the
\* shortfall causes no error.
C23_AttemptsAllAsStated ==
    ShortfallCall =>
        /\ yAttempted = [i \in 1..Len(yIn.urls) |-> i]
        /\ yResult.error \in {None, "no_video_with_subtitles", "youtube_subtitle_error"}

\* C23: given n video URLs with n < max_videos, the collector attempts the
\* URLs in list order, each once: all n of them, unless one of them gives
\* the tenth transcript, which is then the last one attempted; the result
\* is well formed and the shortfall causes no error (found and total_videos
\* follow the transcripts, error is empty as soon as one was found).
C23_AttemptsInOrder ==
    ShortfallCall =>
        /\ yAttempted =
              [i \in 1..(IF Len(yTranscripts) >= 10 THEN yTranscripts[10]
                         ELSE Len(yIn.urls)) |-> i]
        /\ Len(yTranscripts) <= 10
        /\ yResult.error \in {None, "no_video_with_subtitles", "youtube_subtitle_error"}
        /\ yResult.error = "youtube_subtitle_error" => (yIn.api_key /\ ~yIn.character_info)
        /\ yResult.error # "youtube_subtitle_error" =>
              /\ yResult.found = (yTranscripts # <<>>)
              /\ yResult.total_videos = Len(yTranscripts)
              /\ yResult.transcripts = yTranscripts
              /\ yResult.processed_urls = Len(yIn.urls)
              /\ yResult.found => yResult.error = None

\* Three valid URLs with a target of 15: all three attempted, in order.
C23_Witness ==
    /\ yState = "returned" /\ yIn.caller = "direct"
    /\ yIn.urls = <<"found", "found", "found">> /\ yIn.max_videos = 15
    /\ yAttempted = <<1, 2, 3>>
    /\ yResult.found /\ yResult.total_videos = 3 /\ yResult.error = None
\* C24: whenever the active backend cannot supply video URLs (DuckDuckGo
\* is the active engine, web search is disabled, or the URL lookup raises),
\* _get_youtube_urls yields an empty list and the subtitle branch returns,
\* without raising, a record with found = False, total_videos = 0 and no
\* transcripts.
C24_NoUrlsDegrades ==
    LET f == yIn.flags
        duckduckgo_active == ~f.use_chatgpt /\ ~f.use_bing /\ f.use_duckduckgo
        search_disabled ==
            ~f.use_chatgpt /\ ~f.use_bing /\ ~f.use_duckduckgo /\ ~f.use_google
    IN  (yIn.caller = "branch"
            /\ (duckduckgo_active \/ search_disabled \/ yIn.lookup_raises)) =>
            /\ yIn.urls = <<>>
            /\ yState = "returned"
            /\ yAttempted = <<>>
            /\ ~yResult.found
            /\ yResult.total_videos = 0
            /\ yResult.transcripts = <<>>

\* The Google lookup raised: the branch returned the no-URL record.
C24_Witness ==
    /\ yIn.caller = "branch" /\ yIn.lookup_raises /\ yLookup = "google"
    /\ yIn.flags.use_google /\ ~yIn.flags.use_chatgpt /\ ~yIn.flags.use_bing
    /\ yState = "returned" /\ yResult = youtube_no_urls

\* C26 as stated: for every flag combination the backend _get_youtube_urls
\* asks for video URLs is the engine determine_best_search_engine selects
\* for the web-search branch.
C26_SameBackendAsStated ==
    yIn.caller = "branch" =>
        yLookup = determine_best_search_engine(yIn.flags.use_chatgpt, yIn.flags.use_bing,
                                               yIn.flags.use_duckduckgo, yIn.flags.use_google)

\* C26: the backend _get_youtube_urls asks is the engine the web-search
\* branch selects when that engine is Bing or Google; when the selected
\* engine is ChatGPT by flag it is Google if the Google API is configured
\* and Bing otherwise; when DuckDuckGo is selected, or ChatGPT is selected
\* only because no flag is set, no backend is asked.
C26_LookupBackend ==
    yIn.caller = "branch" =>
        LET f == yIn.flags
            e == IF f.use_chatgpt THEN "chatgpt"
                 ELSE IF f.use_bing THEN "bing"
                 ELSE IF f.use_duckduckgo THEN "duckduckgo"
                 ELSE IF f.use_google THEN "google"
                 ELSE "chatgpt"
        IN  /\ e \in {"bing", "google"} => yLookup = e
            /\ e = "duckduckgo" => yLookup = "none"
            /\ (e = "chatgpt" /\ f.use_chatgpt) =>
                  yLookup = IF yIn.google_api THEN "google" ELSE "bing"
            /\ (e = "chatgpt" /\ ~f.use_chatgpt) => yLookup = "none"

\* --use-chatgpt-search without a Google API configuration: Bing is asked.
C26_Witness ==
    /\ yIn.caller = "branch" /\ yIn.flags.use_chatgpt /\ ~yIn.google_api
    /\ yLookup = "bing" /\ yState = "returned" /\ yResult.found

C28_ViewCarriesPage ==
    (pView.name # "none" /\ pInfo.wikipedia_info.found) =>
        LET page == pInfo.wikipedia_info.results[1]
            facts == {pView.key_information[i] : i \in 1..Len(pView.key_information)}
        IN  /\ pView.wikipedia_found
            /\ pView.wikipedia_summary = page.summary
            /\ <<"official_name", page.title>> \in facts
            /\ page.categories # <<>> =>
                  (<<"categories">> \o SliceTo(page.categories, MAX_KEY_INFORMATION)) \in facts
            /\ pUser # <<>> =>
                  \E i \in 1..Len(pUser) : pUser[i] = page.summary \o <<"...">>
            /\ pTexts # <<>> =>
                  \E i \in 1..Len(pTexts[1]) : pTexts[1][i] = page.summary \o <<"...">>

(***************************************************************************)
(* Properties of the candidate selection (specification SpecSelect).       *)
(***************************************************************************)
\* The score as documented: +2 per fiction/character keyword, -3 per
\* institutional, religious or criminal keyword, +5 for the original name.
C29_Score(option) ==
    LET option_lower == lower(option)
    IN  2 * count_in(Tail(character_indicators(wName)), option_lower)
        - 3 * count_in(exclude_indicators, option_lower)
        + (IF contained(wName, option_lower) THEN 5 ELSE 0)

\* C29: _select_best_character_option returns the original name when the
\* candidate list is empty, otherwise an element of the list: the earliest
\* candidate among the first 20 whose score is the maximum over those 20.
C29_SelectsEarliestBest ==
    wSite # "none" =>
        IF wOptions = <<>> THEN wSelected = wName
        ELSE LET n == IF Len(wOptions) < 20 THEN Len(wOptions) ELSE 20
             IN  \E i \in 1..n :
                    /\ wSelected = wOptions[i]
                    /\ \A j \in 1..n : C29_Score(wOptions[j]) <= C29_Score(wOptions[i])
                    /\ \A j \in 1..(i - 1) : C29_Score(wOptions[j]) < C29_Score(wOptions[i])

\* The score with the original name counted both as an indicator (+2) and
\* for the similarity bonus (+5).
C29_ScoreWithName(option) ==
    C29_Score(option) + (IF contained(wName, lower(option)) THEN 2 ELSE 0)

\* C29 (amended): the original name is returned for an empty list, otherwise
\* an element of the list: when some candidate among the first 20 scores 0
\* or more, with the name worth +7, the earliest candidate with the highest
\* such score; when all of them score below 0, the first candidate.
C29_SelectsAsCoded ==
    wSite # "none" =>
        IF wOptions = <<>> THEN wSelected = wName
        ELSE LET n == IF Len(wOptions) < 20 THEN Len(wOptions) ELSE 20
             IN  IF \A j \in 1..n : C29_ScoreWithName(wOptions[j]) < 0
                 THEN wSelected = wOptions[1]
                 ELSE \E i \in 1..n :
                        /\ wSelected = wOptions[i]
                        /\ \A j \in 1..n :
                              C29_ScoreWithName(wOptions[j]) <= C29_ScoreWithName(wOptions[i])
                        /\ \A j \in 1..(i - 1) :
                              C29_ScoreWithName(wOptions[j]) < C29_ScoreWithName(wOptions[i])

\* A selection from more than 20 candidates that did not return the first
\* one although a candidate beyond the twentieth scores higher than the one
\* returned.
C29_Witness ==
    /\ wSite = "disambiguation"
    /\ Len(wOptions) > 20
    /\ wSelected # wOptions[1]
    /\ C29_ScoreWithName(wOptions[Len(wOptions)]) > C29_ScoreWithName(wSelected)

(***************************************************************************)
(* Properties of the realtime display (specification Spec).                *)
(***************************************************************************)
\* The status changes the display may show for one branch.
C27_Forward(old, new) ==
    \/ old = "queued" /\ new = "running"
    \/ old = "running" /\ new \in {"done", "error"}

\* The wait on branch b's future ended in one of the two except clauses: a
\* TimeoutError (the future's own timeout or the alarm raised inside the
\* wait) or the exception the branch function raised.
C27_TimedOutOrRaised(b) ==
    \/ verdict[b] \in {"timeout", "alarm"}
    \/ character_info[SlotKey(b)] = on_exception(b, "escaped_exception")

C30_DisplayStoppedOnExit ==
    (pc \in {"returned", "raised"} /\ display_loop # "none") =>
        /\ sys_stdout = "original"
        /\ display_loop = "stopped"

====
